---- MODULE Spec2Model ----
(***************************************************************************)
(* A model of the stainless_script runtime: the executor's call stack and  *)
(* stored node outputs (src/src/lib.rs), the nodes of the standard library *)
(* that drive it through the execution context (src/src/stdlib/*.rs), and  *)
(* the data-flow store of a loaded program (src/src/program.rs).           *)
(*                                                                         *)
(* A panic of the Rust code (an unwrap of None, an index out of range) is  *)
(* a transition to pc = "fault"; `fault` names the panic.  Nothing runs    *)
(* after a fault.                                                          *)
(***************************************************************************)
EXTENDS Integers, Sequences, FiniteSets, TLC

VARIABLES
    node_stack,      \* Executor.node_stack: Vec<AbsoluteNodeId>, top is the last
    node_outputs,    \* Executor.node_outputs: HashMap<AbsoluteNodeId, Vec<Object>>
    auto_execution,  \* Executor.auto_execution
    stop_point,      \* the breakpoint of the loop (<<>> or <<node>>)
    loaded,          \* Executor.loaded: the loaded program, fixed after load
    pc,              \* "new" | "idle" | "exec" | "fault"
    fault,           \* which panic ended the run, "none" while it runs
    ctx,             \* the ExecutionContext of the step in progress
    op,              \* history: the last operation performed
    resumed,         \* history: resume_auto() has been called
    lock,            \* the Mutex around the executor: "free", "held" by a
                     \* guard, or "poisoned" by a panic under a guard
    connections,     \* LoadedProgram.connections: Connection -> Option<Object>
    store_op,        \* history: the last operation on the store, the node
                     \* it was called for and what it returned
    storage,         \* a NodeStorage: its nodes and its next_vacant
    storage_op,      \* history: the last operation on the storage, its node
                     \* id (the one passed or the one returned) and its node
    modules,         \* Executor.modules: the module tree, path -> ModuleItem
    programs,        \* Executor.programs: program name -> Option<LoadedProgram>
    pending,         \* the programs of the collection not loaded yet
    load,            \* "ok", or the panic that ended a registry operation
    load_op,         \* history: the last registry operation, its path or
                     \* program, what it was given and what it returned
    codec_op,        \* history: the last conversion, its input and its output
    variables,       \* the variable map of the execution: name -> Option<Object>
    node_op          \* history: the last Node::execute, what it returned and
                     \* what it handed to the context

vars == <<node_stack, node_outputs, auto_execution, stop_point, loaded, pc,
          fault, ctx, op, resumed, lock, connections, store_op, storage,
          storage_op, modules, programs, pending, load, load_op, codec_op,
          variables, node_op>>

exec_vars == <<node_stack, node_outputs, auto_execution, stop_point, loaded,
               pc, fault, ctx, op, resumed, lock>>

store_vars == <<connections, store_op>>

storage_vars == <<storage, storage_op>>

\* The module tree, the loaded programs and the loading in progress.
registry_vars == <<modules, programs, pending, load, load_op>>

\* What the executor and the store leave alone.
codec_vars == <<codec_op>>

node_vars == <<variables, node_op>>

aux_vars == <<storage_vars, registry_vars, codec_vars, node_vars>>

----------------------------------------------------------------------------
(* Bounds of the model *)

MaxStack == 3     \* frames the model lets execute_subroutine build
MaxCalls == 2     \* context calls a plugin node makes in one execute
MaxValue == 2     \* objects are 1..MaxValue

Values == 1..MaxValue

\* An empty input slot (Option::None of get_inputs).
Absent == 0

\* Option<T>: None is the empty sequence, Some(x) the sequence <<x>>.
None == <<>>

Some(x) == <<x>>

\* The value lists a node hands to the context.
ValueSeqs == {<<>>} \cup {<<v>> : v \in Values}

----------------------------------------------------------------------------
(* The loaded program.  Node ids are those of one program, __main__.       *)
(*   main:        0 entry -> 1 value -> 2 end                              *)
(*                0 entry -> 3 call(4) -> 2 end                            *)
(*   subroutine:  4 start -> 5 plugin -> 6 end, or                         *)
(*                4 start -> 7 call(4) -> 6 end;                           *)
(*                branch 1 of node 5 has no edge                           *)

NodeIds == 0..7

SubroutineEntry == 4

\* The call node inside the subroutine whose target is this subroutine.
RecursiveCall == 7

\* The node table: what execute() of each node does.
\*   "start"  StartNode, "end" EndNode, "value" a constructor node,
\*   "call"   SubroutineCall in the fixed variant,
\*   "custom" a node supplied by a plugin: any use of the context.
NodeTable(entryKind) ==
    (0 :> entryKind) @@ (1 :> "value") @@ (2 :> "end") @@ (3 :> "call") @@
    (4 :> "start") @@ (5 :> "custom") @@ (6 :> "end") @@ (7 :> "call")

\* branch_edges: NodeBranchId(node, branch) -> successor.
BranchEdges ==
    (<<0, 0>> :> 1) @@ (<<0, 1>> :> 3) @@ (<<1, 0>> :> 2) @@ (<<3, 0>> :> 2) @@
    (<<4, 0>> :> 5) @@ (<<4, 1>> :> 7) @@ (<<5, 0>> :> 6) @@ (<<7, 0>> :> 6)

\* Connection { output: (node, index), input: (node, index) }.
Conn(on, oi, inn, ii) == [output |-> <<on, oi>>, input |-> <<inn, ii>>]

ProgramConnections ==
    { Conn(0, 0, 3, 0), Conn(1, 0, 2, 0), Conn(3, 0, 2, 1), Conn(4, 0, 5, 0),
      Conn(4, 0, 7, 0), Conn(5, 0, 6, 0) }

\* LoadedProgramData.modules after load_plugin(StdPlugin): the classes that
\* the nodes of the program are instances of, all under "std".
StdClasses == { <<"std", c>> : c \in {"start", "end", "array", "subroutine"} }

Program(entryKind) ==
    [ nodes        |-> NodeTable(entryKind),
      branch_edges |-> BranchEdges,
      connections  |-> ProgramConnections,
      const_inputs |-> <<>>,
      modules      |-> StdClasses ]

\* The entry node is the standard StartNode, or a plugin's node of a class
\* named "start" (get_start_node compares the class name only).
Programs == { Program(k) : k \in {"start", "custom"} }

----------------------------------------------------------------------------
(* Helpers on sequences and maps *)

Last(s) == s[Len(s)]

Front(s) == SubSeq(s, 1, Len(s) - 1)

Max(S) == CHOOSE x \in S : \A y \in S : y <= x

\* HashMap::insert on a map kept as a total function to Option.
MapInsert(m, k, v) == [m EXCEPT ![k] = Some(v)]

----------------------------------------------------------------------------
(* Executor: the operations on the call stack and the stored outputs *)

\* A pop that clears the vector instead of removing one frame.
StackClear(stack) == <<>>

\* Vec::pop: removes the last frame; on an empty vector it changes nothing.
StackPop(stack) == IF stack = <<>> THEN <<>> ELSE Front(stack)

\* A push that overwrites the top frame instead of adding one above it.
StackReplaceTop(stack, node_id) == Append(Front(stack), node_id)

\* Vec::push.
StackPush(stack, node_id) == Append(stack, node_id)

\* Executor::set_node_outputs: node_outputs.insert(current_node(), values).
\* current_node() unwraps the stack top: the caller faults on an empty stack.
SetNodeOutputs(outs, stack, values) == MapInsert(outs, Last(stack), values)

\* LoadedProgram::get_next_node: the branch-edge table's entry, if any.
\* A lookup that answers with the node itself when the table has no edge.
GetNextNodeOrSelf(current, branch) ==
    IF <<current, branch>> \in DOMAIN loaded.branch_edges
    THEN Some(loaded.branch_edges[<<current, branch>>])
    ELSE Some(current)

GetNextNode(current, branch) ==
    IF <<current, branch>> \in DOMAIN loaded.branch_edges
    THEN Some(loaded.branch_edges[<<current, branch>>])
    ELSE None

\* The connections into node_id whose source slot has been written.
FilledInto(node_id) ==
    { c \in loaded.connections :
        /\ c.input[1] = node_id
        /\ node_outputs[c.output[1]] # None
        /\ c.output[2] < Len(node_outputs[c.output[1]][1]) }

\* Executor::get_node_inputs (its body is todo!() in src/src/lib.rs): the
\* inputs of the stack top gathered from the connections that end in it,
\* dense from 0 to the highest filled index, Absent where nothing arrived.
GetNodeInputs(node_id) ==
    LET filled == FilledInto(node_id)
        idxs   == { c.input[2] : c \in filled }
    IN  IF idxs = {} THEN <<>>
        ELSE [ i \in 1..(Max(idxs) + 1) |->
                 IF (i - 1) \in idxs
                 THEN LET c == CHOOSE d \in filled : d.input[2] = i - 1
                      IN  node_outputs[c.output[1]][1][c.output[2] + 1]
                 ELSE Absent ]

\* ExecutionContext::new(executor, inputs): node_outputs starts as None.
NewContext(node_id, inputs) ==
    [ node |-> node_id, inputs |-> inputs, outputs |-> None, calls |-> 0 ]

NoContext == NewContext(0, <<>>)

\* A panic: the run ends where it stands.
Panic(why) ==
    /\ pc' = "fault"
    /\ fault' = why

Kind(node_id) == loaded.nodes[node_id]

----------------------------------------------------------------------------
(* Init: Executor::default() with the standard plugin and a program loaded *)

NoOutputs == [ n \in NodeIds |-> None ]

NoValues == [ c \in ProgramConnections |-> None ]

ExecInit ==
    /\ node_stack = <<>>
    /\ node_outputs = NoOutputs
    /\ auto_execution = FALSE
    /\ stop_point = None
    /\ loaded \in Programs
    /\ pc = "new"
    /\ fault = "none"
    /\ ctx = NoContext
    /\ op = "none"
    /\ resumed = FALSE
    /\ lock = "free"

\* The record of a store operation.
StoreOp(name, node_id, result) ==
    [ name |-> name, node |-> node_id, result |-> result ]

NoStoreOp == StoreOp("none", 0, <<>>)

\* NodeStorage::default(): no nodes, next_vacant = 0.  A node is a name, ""
\* where the map has no entry.
MaxNodeId == 3

StorageIds == 0..MaxNodeId

EmptyStorage == [ nodes |-> [ i \in StorageIds |-> "" ], next_vacant |-> 0 ]

StorageOp(name, node_id, node) == [ name |-> name, id |-> node_id, node |-> node ]

NoStorageOp == StorageOp("none", 0, "")

\* ModuleItem: a module, a class (its name and its nodes) or a constant.
ModuleItem(kind, name, nodes) == [ kind |-> kind, name |-> name, nodes |-> nodes ]

ItemModule == ModuleItem("module", "", <<>>)

ItemConstant == ModuleItem("constant", "", <<>>)

\* impl From<Class> for ModuleItem.
ItemClass(class) == ModuleItem("class", class.name, class.nodes)

Class(name, nodes) == [ name |-> name, nodes |-> nodes ]

\* ModulePath(segments, leaf), kept as the one sequence segments ++ [leaf].
ModulePath(segments, leaf) == Append(segments, leaf)

\* Module::default(): no items.  The tree is kept as one map from the full
\* path of an item to the item.
EmptyModule == [ p \in {} |-> ItemModule ]

\* The record of a registry operation.
LoadOp(name, path, item, result) ==
    [ name |-> name, path |-> path, item |-> item, result |-> result ]

NoLoadOp == LoadOp("none", <<>>, ItemModule, None)

\* Executor::default(): an empty module tree, no programs.
NoPrograms == [ p \in {} |-> None ]

\* The record of a conversion: what was converted, from what, into what;
\* both are kept as sequences.
CodecOp(name, input, output, error) ==
    [ name |-> name, input |-> input, output |-> output, error |-> error ]

NoCodecOp == CodecOp("none", <<>>, <<>>, "none")

\* An object: its class, its text (what Display writes) and, for a
\* subroutine, the node id of its entry.
Obj(class, text, entry) == [ class |-> class, text |-> text, entry |-> entry ]

BoolTrue == Obj("bool", "true", 0)

BoolFalse == Obj("bool", "false", 0)

\* The subroutine of the loaded program: entered at node 4, left at node 6.
SubroutineObject == Obj("subroutine", "subroutine:main@4:main@6", SubroutineEntry)

Objects == {BoolTrue, BoolFalse, SubroutineObject}

\* The names of variables: the texts of the objects that name them.
VariableNames == { o.text : o \in Objects }

\* The variable map when the executor is created: no variable is set.
NoVariables == [ name \in VariableNames |-> None ]

\* The record of a Node::execute: the node, its inputs, the branch it
\* returned, the panic that ended it, the outputs it set in the context, and
\* the values it passed to execute_subroutine or finish_subroutine.
NodeOp(class, variant, inputs, branch, error, outputs, passed) ==
    [ class |-> class, variant |-> variant, inputs |-> inputs, branch |-> branch,
      error |-> error, outputs |-> outputs, passed |-> passed ]

NoNodeOp == NodeOp("none", "", <<>>, 0, "none", None, <<>>)

AuxInit ==
    /\ codec_op = NoCodecOp
    /\ variables = NoVariables
    /\ node_op = NoNodeOp
    /\ storage = EmptyStorage
    /\ storage_op = NoStorageOp
    /\ modules = EmptyModule
    /\ programs = NoPrograms
    /\ pending = {}
    /\ load = "ok"
    /\ load_op = NoLoadOp

Init ==
    /\ ExecInit
    /\ connections = NoValues
    /\ store_op = NoStoreOp
    /\ AuxInit

----------------------------------------------------------------------------
(* The driver: start_execution, the auto loop, breakpoints *)

\* LoadedProgram::get_start_node for entry "main" of __main__: node 0.
StartNodeOfMain == 0

\* The breakpoints a host sets in this model.
StopPoints == { None, Some(1), Some(5) }

\* Executor::start_execution(auto): sets the auto flag (lib.rs:393); the rest
\* of its body is todo!() in the source and follows the specification: push
\* the start node of __main__, then run the loop if auto is set.
start_execution(auto, stop) ==
    /\ pc = "new"
    /\ auto_execution' = auto
    /\ stop_point' = stop
    /\ node_stack' = StackPush(node_stack, StartNodeOfMain)
    /\ pc' = "idle"
    /\ op' = "start_execution"
    /\ UNCHANGED <<node_outputs, loaded, fault, ctx, store_vars, resumed, aux_vars, lock>>

\* The loop halts at a breakpoint before executing it and clears the flag.
AtStopPoint == node_stack # <<>> /\ stop_point = Some(Last(node_stack))

halt_at_breakpoint ==
    /\ pc = "idle"
    /\ auto_execution
    /\ AtStopPoint
    /\ op # "resume_auto"
    /\ auto_execution' = FALSE
    /\ op' = "halt"
    /\ UNCHANGED <<node_stack, node_outputs, stop_point, loaded, pc, fault,
                   ctx, store_vars, resumed, aux_vars, lock>>

\* resume_auto(): sets the flag again, runs the step of the node the loop
\* stopped at and goes on with the loop.
resume_auto ==
    /\ pc = "idle"
    /\ ~auto_execution
    /\ node_stack # <<>>
    /\ auto_execution' = TRUE
    /\ resumed' = TRUE
    /\ op' = "resume_auto"
    /\ UNCHANGED <<node_stack, node_outputs, stop_point, loaded, pc, fault,
                   ctx, store_vars, aux_vars, lock>>

\* resume_until(id): moves the breakpoint, then resumes.
resume_until(stop) ==
    /\ pc = "idle"
    /\ ~auto_execution
    /\ node_stack # <<>>
    /\ stop # None
    /\ stop_point' = stop
    /\ auto_execution' = TRUE
    /\ op' = "resume_until"
    /\ UNCHANGED <<node_stack, node_outputs, loaded, pc, fault, ctx,
                   store_vars, resumed, aux_vars, lock>>

\* When a step is taken: by the loop while the stack is non-empty, the flag is
\* set and the top is not the breakpoint (or the loop has just been resumed
\* there); by the host, one step at a time, while the flag is clear.
StepAllowed ==
    /\ pc = "idle"
    /\ node_stack # <<>>
    /\ auto_execution => (~AtStopPoint \/ op = "resume_auto")

----------------------------------------------------------------------------
(* One step: Executor::execute_current_node.  The executor's lock is       *)
(* released while the node executes, and each context call takes it again, *)
(* so a step is: begin, the node's context calls, end.                     *)

\* self_mutex.lock().unwrap(): the guard of a free mutex; a held mutex
\* blocks the caller, a poisoned one makes unwrap panic.
LockGuard(mutex) == "held"

\* A guard that outlives its block: the mutex stays held.
DropGuardLeaked(guard) == guard

\* drop(lock), or the end of the guard's block or statement: the mutex is
\* free again.
DropGuard(guard) == "free"

\* A panic while a guard is alive poisons the mutex.
Poisoned(guard) == "poisoned"

\* Lines 349-357: under the lock, read the stack top, its inputs and its
\* node; drop the guard; build the context.
execute_current_node_begin ==
    /\ StepAllowed
    /\ lock = "free"
    /\ lock' = DropGuard(LockGuard(lock))
    /\ ctx' = NewContext(Last(node_stack), GetNodeInputs(Last(node_stack)))
    /\ pc' = "exec"
    /\ op' = "begin"
    /\ UNCHANGED <<node_stack, node_outputs, auto_execution, stop_point,
                   loaded, fault, store_vars, resumed, aux_vars>>

\* ExecutionContext::set_outputs: kept in the context, Some(values).
ContextSetOutputs(c, values) ==
    [c EXCEPT !.outputs = Some(values), !.calls = @ + 1]

\* Which nodes call set_outputs, and with what: a constructor node (BoolNode,
\* NumberNode, StringNode, ArrayConstructor) passes one object; a plugin's
\* node passes anything.
MaySetOutputs(values) ==
    \/ Kind(ctx.node) = "value" /\ ctx.calls = 0 /\ Len(values) = 1
    \/ Kind(ctx.node) = "custom" /\ ctx.calls < MaxCalls

\* A set_outputs that also empties the branch-edge table of the program.
set_outputs_clearing_edges(values) ==
    /\ pc = "exec"
    /\ MaySetOutputs(values)
    /\ ctx' = ContextSetOutputs(ctx, values)
    /\ op' = "set_outputs"
    /\ loaded' = [loaded EXCEPT !.branch_edges = <<>>]
    /\ UNCHANGED <<node_stack, node_outputs, auto_execution, stop_point,
                   pc, fault, store_vars, resumed, aux_vars, lock>>

set_outputs(values) ==
    /\ pc = "exec"
    /\ MaySetOutputs(values)
    /\ ctx' = ContextSetOutputs(ctx, values)
    /\ op' = "set_outputs"
    /\ UNCHANGED <<node_stack, node_outputs, auto_execution, stop_point,
                   loaded, pc, fault, store_vars, resumed, aux_vars, lock>>

\* SubroutineCall::execute (fixed variant) calls the entry baked into its
\* variant with all its inputs; a plugin's node calls with any arguments.
MayExecuteSubroutine(target, input_values) ==
    /\ target = SubroutineEntry
    /\ \/ Kind(ctx.node) = "call" /\ ctx.calls = 0 /\ input_values = ctx.inputs
       \/ Kind(ctx.node) = "custom" /\ ctx.calls < MaxCalls
                                    /\ input_values \in ValueSeqs \cup {ctx.inputs}

\* Executor::execute_subroutine: push, then set_node_outputs.
execute_subroutine(target, input_values) ==
    /\ pc = "exec"
    /\ MayExecuteSubroutine(target, input_values)
    /\ Len(node_stack) < MaxStack
    /\ lock = "free"
    /\ lock' = DropGuard(LockGuard(lock))
    /\ node_stack' = StackPush(node_stack, target)
    /\ node_outputs' = SetNodeOutputs(node_outputs, node_stack', input_values)
    /\ ctx' = [ctx EXCEPT !.calls = @ + 1]
    /\ op' = "execute_subroutine"
    /\ UNCHANGED <<auto_execution, stop_point, loaded, pc, fault, store_vars, resumed, aux_vars>>

\* EndNode::execute returns its own inputs; a plugin's node returns anything.
MayFinishSubroutine(return_values) ==
    \/ Kind(ctx.node) = "end" /\ ctx.calls = 0 /\ return_values = ctx.inputs
    \/ Kind(ctx.node) = "custom" /\ ctx.calls < MaxCalls
                                 /\ return_values \in ValueSeqs \cup {ctx.inputs}

\* Executor::finish_subroutine: pop, then set_node_outputs, whose
\* current_node() panics when the pop emptied the stack.
finish_subroutine(return_values) ==
    /\ pc = "exec"
    /\ MayFinishSubroutine(return_values)
    /\ node_stack' = StackPop(node_stack)
    /\ ctx' = [ctx EXCEPT !.calls = @ + 1]
    /\ op' = "finish_subroutine"
    /\ lock = "free"
    /\ IF node_stack' = <<>>
       THEN /\ Panic("finish_subroutine: current_node on an empty stack")
            /\ lock' = Poisoned(LockGuard(lock))
            /\ UNCHANGED node_outputs
       ELSE /\ node_outputs' = SetNodeOutputs(node_outputs, node_stack', return_values)
            /\ lock' = DropGuard(LockGuard(lock))
            /\ UNCHANGED <<pc, fault>>
    /\ UNCHANGED <<auto_execution, stop_point, loaded, store_vars, resumed, aux_vars>>

\* What execute() returns, once the node has made its calls: StartNode and the
\* constructors return 0 at once, EndNode and SubroutineCall after their one
\* call; a plugin's node returns any branch.
MayReturn(branch) ==
    \/ Kind(ctx.node) = "start" /\ ctx.calls = 0 /\ branch = 0
    \/ Kind(ctx.node) \in {"end", "call", "value"} /\ ctx.calls = 1 /\ branch = 0
    \/ Kind(ctx.node) = "custom" /\ branch \in {0, 1}

\* Executor::advance: pop the top, look up its successor, push it.
Advance(stack, next) == StackPush(StackPop(stack), next)

\* Lines 358-363: execute() has returned `branch`;
\* set_node_outputs(context.node_outputs.unwrap()), then advance(branch),
\* whose get_next_node unwraps the branch-edge lookup.
execute_current_node_end(branch) ==
    /\ pc = "exec"
    /\ MayReturn(branch)
    /\ op' = "end_step"
    /\ lock = "free"
    /\ IF ctx.outputs = None
       THEN /\ Panic("execute_current_node: node_outputs is None")
            /\ lock' = Poisoned(LockGuard(lock))
            /\ UNCHANGED <<node_stack, node_outputs>>
       ELSE /\ node_outputs' = SetNodeOutputs(node_outputs, node_stack, ctx.outputs[1])
            /\ IF GetNextNode(Last(node_stack), branch) = None
               THEN /\ Panic("get_next_node: no branch edge")
                    /\ lock' = Poisoned(LockGuard(lock))
                    /\ node_stack' = StackPop(node_stack)
               ELSE /\ node_stack' =
                         Advance(node_stack, GetNextNode(Last(node_stack), branch)[1])
                    /\ lock' = DropGuard(LockGuard(lock))
                    /\ pc' = "idle"
                    /\ UNCHANGED fault
    /\ UNCHANGED <<auto_execution, stop_point, loaded, ctx, store_vars, resumed, aux_vars>>

ExecNext ==
    \/ \E auto \in BOOLEAN, stop \in StopPoints : start_execution(auto, stop)
    \/ halt_at_breakpoint
    \/ resume_auto
    \/ \E stop \in StopPoints : resume_until(stop)
    \/ execute_current_node_begin
    \/ \E values \in ValueSeqs : set_outputs(values)
    \/ \E input_values \in ValueSeqs \cup {ctx.inputs} :
          execute_subroutine(SubroutineEntry, input_values)
    \/ \E return_values \in ValueSeqs \cup {ctx.inputs} :
          finish_subroutine(return_values)
    \/ \E branch \in {0, 1} : execute_current_node_end(branch)

Next == ExecNext

Spec == Init /\ [][Next]_vars

----------------------------------------------------------------------------
(* The data-flow store of a loaded program: src/src/program.rs.            *)
(* Nodes 0 and 1 produce values, node 2 consumes them.                     *)

MaxConns == 3     \* connections of a program of the store model

StoreNodeIds == 0..2

\* Node::inputs() of the consumer: the classes of its declared input
\* sockets.  "number" has a from-text parser, the class of a supplied
\* subroutine's io has none (obj_from_str: None).
StoreNodeTable == (0 :> "pair") @@ (1 :> "value") @@ (2 :> "consumer")

\* Node::outputs(): how many output sockets a node of the kind declares.
NodeOutputs(kind) ==
    IF kind = "pair" THEN 2 ELSE IF kind = "value" THEN 1 ELSE 0

NodeInputs(kind) ==
    IF kind = "consumer"
    THEN <<"number", "number", "from_supplied_subroutine">>
    ELSE <<>>

\* Class.obj_from_str, applied to a literal: f64::from_str for "number".
\* The result is Some(object), None for a text that is no number.
ParseNumber(text) ==
    IF text = "1" THEN Some(1) ELSE IF text = "2" THEN Some(2) ELSE None

HasParser(class) == class = "number"

\* The connections a program of the store model is built from.
StoreConnectionUniverse ==
    { Conn(0, 0, 2, 0), Conn(0, 0, 2, 2), Conn(0, 1, 2, 2), Conn(1, 0, 2, 0),
      Conn(1, 0, 2, 1) }

\* The constant-input tables: InputSocketId (node, index) -> literal text.
StoreConstInputs ==
    { <<>>,
      (<<2, 1>> :> "1"),
      (<<2, 0>> :> "2"),
      (<<2, 2>> :> "1"),      \* a socket whose class has no parser
      (<<2, 3>> :> "1"),      \* an index the node declares no socket for
      (<<2, 1>> :> "x"),      \* a literal that does not parse
      (<<0, 0>> :> "1") }     \* a constant of another node

StorePrograms ==
    { [ nodes        |-> StoreNodeTable,
        branch_edges |-> <<>>,
        connections  |-> cs,
        const_inputs |-> k ] :
      cs \in { x \in SUBSET StoreConnectionUniverse : Cardinality(x) <= MaxConns },
      k \in StoreConstInputs }

\* From<&Program> for LoadedProgram: every connection starts with None.
EmptySlots(cs) == [ c \in cs |-> None ]

StoreInit ==
    /\ node_stack = <<>>
    /\ node_outputs = NoOutputs
    /\ auto_execution = FALSE
    /\ stop_point = None
    /\ loaded \in StorePrograms
    /\ pc = "new"
    /\ fault = "none"
    /\ ctx = NoContext
    /\ op = "none"
    /\ resumed = FALSE
    /\ lock = "free"
    /\ connections = EmptySlots(loaded.connections)
    /\ store_op = NoStoreOp
    /\ AuxInit

\* set_outputs that empties the connections of the node it is not given an
\* output for.
SetOutputsClearingTheRest(conns, node_id, outputs) ==
    [ c \in DOMAIN conns |->
        IF c.output[1] = node_id
        THEN IF c.output[2] < Len(outputs)
             THEN Some(outputs[c.output[2] + 1])
             ELSE None
        ELSE conns[c] ]

\* set_outputs that writes only the first connection it finds for a socket.
SetOutputsFirstOnly(conns, node_id, outputs) ==
    [ c \in DOMAIN conns |->
        IF /\ c.output[1] = node_id
           /\ c.output[2] < Len(outputs)
           /\ c = CHOOSE d \in DOMAIN conns : d.output = c.output
        THEN Some(outputs[c.output[2] + 1])
        ELSE conns[c] ]

\* LoadedProgram::set_outputs: for each (i, output), every connection whose
\* output socket is (node_id, i) gets Some(output).
SetOutputs(conns, node_id, outputs) ==
    [ c \in DOMAIN conns |->
        IF c.output[1] = node_id /\ c.output[2] < Len(outputs)
        THEN Some(outputs[c.output[2] + 1])
        ELSE conns[c] ]

\* get_inputs, first half of the chain: (input index, value) of every
\* connection into node_id whose slot is Some.
ConnectionEntries(conns, node_id) ==
    { <<c.input[2], conns[c][1]>> :
        c \in { d \in DOMAIN conns : d.input[1] = node_id /\ conns[d] # None } }

\* The constants get_inputs looks at: those of node_id on a socket index the
\* node declares (inputs.get(index)? skips the others).
ConstSockets(node_id) ==
    { sk \in DOMAIN loaded.const_inputs :
        /\ sk[2] < Len(NodeInputs(loaded.nodes[node_id]))
        /\ sk[1] = node_id }

SocketClass(sk) == NodeInputs(loaded.nodes[sk[1]])[sk[2] + 1]

\* class.obj_from_str.unwrap()(v).unwrap() panics when the class has no
\* parser or the literal does not parse.
ConstPanics(node_id) ==
    \E sk \in ConstSockets(node_id) :
        \/ ~HasParser(SocketClass(sk))
        \/ ParseNumber(loaded.const_inputs[sk]) = None

\* get_inputs, second half of the chain: (input index, parsed constant).
ConstEntries(node_id) ==
    { <<sk[2], ParseNumber(loaded.const_inputs[sk])[1]>> : sk \in ConstSockets(node_id) }

\* A chain with the constants first: a filled connection replaces the
\* constant of its socket.
EntryValuesConnectionsLast(conns, node_id, index) ==
    IF \E e \in ConnectionEntries(conns, node_id) : e[1] = index
    THEN { e[2] : e \in { x \in ConnectionEntries(conns, node_id) : x[1] = index } }
    ELSE { e[2] : e \in { x \in ConstEntries(node_id) : x[1] = index } }

\* collect::<BTreeMap>: a later entry replaces an earlier one of the same
\* index.  The constants come last in the chain, so a constant wins; among
\* connections into one socket the HashMap's iteration order decides.
EntryValues(conns, node_id, index) ==
    IF \E e \in ConstEntries(node_id) : e[1] = index
    THEN { e[2] : e \in { x \in ConstEntries(node_id) : x[1] = index } }
    ELSE { e[2] : e \in { x \in ConnectionEntries(conns, node_id) : x[1] = index } }

EntryIndexes(conns, node_id) ==
    { e[1] : e \in ConnectionEntries(conns, node_id) \cup ConstEntries(node_id) }

\* for i in 0..max over the keys, with no unwrap_or(0): no slot when no
\* index is mentioned.
InputsLengthOfTheKeys(conns, node_id) ==
    IF EntryIndexes(conns, node_id) = {} THEN 0
    ELSE Max(EntryIndexes(conns, node_id)) + 1

\* A result with no slot for the highest index.
InputsLengthShort(conns, node_id) ==
    IF EntryIndexes(conns, node_id) = {} THEN 1
    ELSE Max(EntryIndexes(conns, node_id))

\* for i in 0..=max.unwrap_or(0): the number of slots of the result.
InputsLength(conns, node_id) ==
    IF EntryIndexes(conns, node_id) = {} THEN 1
    ELSE Max(EntryIndexes(conns, node_id)) + 1

\* LoadedProgram::get_inputs: the results it can return, each a sequence of
\* Option<Object>.
GetInputs(conns, node_id) ==
    LET keys == EntryIndexes(conns, node_id)
        vals == UNION { EntryValues(conns, node_id, k) : k \in keys }
    IN  { r \in [ 1..InputsLength(conns, node_id) -> {None} \cup { Some(v) : v \in vals } ] :
            \A i \in DOMAIN r :
                IF (i - 1) \in keys
                THEN r[i] # None /\ r[i][1] \in EntryValues(conns, node_id, i - 1)
                ELSE r[i] = None }

\* The outputs handed to set_outputs, each as the Some(output) it stores.
Written(outputs) == [ i \in 1..Len(outputs) |-> Some(outputs[i]) ]

\* LoadedProgramData::set_outputs on the loaded program.
set_outputs_of(node_id, outputs) ==
    /\ connections' = SetOutputs(connections, node_id, outputs)
    /\ store_op' = StoreOp("set_outputs", node_id, Written(outputs))
    /\ UNCHANGED <<exec_vars, aux_vars>>

\* LoadedProgramData::get_inputs on the loaded program.
get_inputs_of(node_id) ==
    /\ IF ConstPanics(node_id)
       THEN store_op' = StoreOp("get_inputs panicked", node_id, <<>>)
       ELSE \E r \in GetInputs(connections, node_id) :
               store_op' = StoreOp("get_inputs", node_id, r)
    /\ UNCHANGED <<connections, exec_vars, aux_vars>>

\* The output lists a node passes: at most one value per output socket.
OutputSeqs(node_id) ==
    UNION { [ 1..k -> Values ] : k \in 0..NodeOutputs(loaded.nodes[node_id]) }

StoreNext ==
    \/ \E n \in StoreNodeIds : \E v \in OutputSeqs(n) : set_outputs_of(n, v)
    \/ \E n \in StoreNodeIds : get_inputs_of(n)

StoreSpec == StoreInit /\ [][StoreNext]_vars

----------------------------------------------------------------------------
(* NodeStorage: src/src/node.rs.  Ids beyond MaxNodeId are never used, so  *)
(* MaxNodeId + 1 is always vacant.                                         *)

StorageNodes == {"a", "b"}

\* The loop left out: the id it starts from.
FirstVacantFromStart(nodes, node_id) == node_id

\* while self.nodes.get(&node_id).is_some() { node_id += 1 }
FirstVacantFrom(nodes, node_id) ==
    CHOOSE i \in node_id..(MaxNodeId + 1) :
        /\ i \notin StorageIds \/ nodes[i] = ""
        /\ \A j \in node_id..(i - 1) : nodes[j] # ""

\* NodeStorage::insert_node: the node goes to next_vacant, the id the loop
\* stops at becomes next_vacant and is returned.
insert_node(node) ==
    /\ storage.next_vacant \in StorageIds
    /\ LET nodes == [storage.nodes EXCEPT ![storage.next_vacant] = node]
           node_id == FirstVacantFrom(nodes, storage.next_vacant)
       IN  /\ storage' = [ nodes |-> nodes, next_vacant |-> node_id ]
           /\ storage_op' = StorageOp("insert_node", node_id, node)
    /\ UNCHANGED <<exec_vars, store_vars, registry_vars, codec_vars, node_vars>>

\* NodeStorage::insert_node_at.
insert_node_at(node_id, node) ==
    /\ LET nodes == [storage.nodes EXCEPT ![node_id] = node]
       IN  storage' = [ nodes |-> nodes,
                        next_vacant |-> FirstVacantFrom(nodes, storage.next_vacant) ]
    /\ storage_op' = StorageOp("insert_node_at", node_id, node)
    /\ UNCHANGED <<exec_vars, store_vars, registry_vars, codec_vars, node_vars>>

\* NodeStorage::remove_node.
remove_node(node_id) ==
    /\ storage' = [ nodes |-> [storage.nodes EXCEPT ![node_id] = ""],
                    next_vacant |-> IF node_id < storage.next_vacant
                                    THEN node_id
                                    ELSE storage.next_vacant ]
    /\ storage_op' = StorageOp("remove_node", node_id, storage.nodes[node_id])
    /\ UNCHANGED <<exec_vars, store_vars, registry_vars, codec_vars, node_vars>>

StorageNext ==
    \/ \E node \in StorageNodes : insert_node(node)
    \/ \E node_id \in StorageIds, node \in StorageNodes : insert_node_at(node_id, node)
    \/ \E node_id \in StorageIds : remove_node(node_id)

StorageSpec == Init /\ [][StorageNext]_vars

----------------------------------------------------------------------------
(* Module: the tree of modules, classes and constants *)

\* The outcome of Module::insert: the tree it leaves and whether it
\* panicked.
Inserted(tree, panicked) == [ modules |-> tree, panicked |-> panicked ]

\* The walk of Module::insert from segment k on.  A missing segment becomes
\* an empty module; a segment that is not a module panics, the modules
\* made so far stay.  At the leaf, entry().or_insert_with() stores the item
\* only where the name is free.
RECURSIVE InsertFrom(_, _, _, _)
InsertFrom(tree, path, item, k) ==
    LET at == SubSeq(path, 1, k) IN
    IF k = Len(path)
    THEN IF at \in DOMAIN tree
         THEN Inserted(tree, FALSE)
         ELSE Inserted((at :> item) @@ tree, FALSE)
    ELSE IF at \notin DOMAIN tree
         THEN InsertFrom((at :> ItemModule) @@ tree, path, item, k + 1)
         ELSE IF tree[at].kind = "module"
              THEN InsertFrom(tree, path, item, k + 1)
              ELSE Inserted(tree, TRUE)

ModuleInsert(tree, path, item) == InsertFrom(tree, path, item, 1)

\* Module::get_class: None when a segment is missing or is not a module, or
\* when the leaf is missing or is not a class.
GetClass(tree, path) ==
    IF /\ \A k \in 1..(Len(path) - 1) :
            /\ SubSeq(path, 1, k) \in DOMAIN tree
            /\ tree[SubSeq(path, 1, k)].kind = "module"
       /\ path \in DOMAIN tree
       /\ tree[path].kind = "class"
    THEN Some(Class(tree[path].name, tree[path].nodes))
    ELSE None

\* The paths and the items a host passes to the tree in this model.
InsertPaths ==
    { ModulePath(<<>>, "K"), ModulePath(<<"lib">>, "K"),
      ModulePath(<<"lib", "m">>, "K"), ModulePath(<<"lib", "K">>, "x"),
      ModulePath(<<>>, "lib") }

InsertItems ==
    { ItemClass(Class("K", <<>>)), ItemClass(Class("J", <<>>)), ItemConstant }

module_insert(path, item) ==
    /\ load = "ok"
    /\ LET done == ModuleInsert(modules, path, item)
       IN  /\ modules' = done.modules
           /\ load' = IF done.panicked
                      THEN "Attempt to index non-module item."
                      ELSE "ok"
           /\ load_op' = LoadOp("insert", path, item, None)
    /\ UNCHANGED <<programs, pending, exec_vars, store_vars, storage_vars,
                   codec_vars, node_vars>>

get_class(path) ==
    /\ load = "ok"
    /\ load_op' = LoadOp("get_class", path, ItemModule, GetClass(modules, path))
    /\ UNCHANGED <<modules, programs, pending, load, exec_vars, store_vars,
                   storage_vars, codec_vars, node_vars>>

ModuleNext ==
    \/ \E path \in InsertPaths, item \in InsertItems : module_insert(path, item)
    \/ \E path \in InsertPaths : get_class(path)

ModuleSpec == Init /\ [][ModuleNext]_vars

----------------------------------------------------------------------------
(* LoadedProgramData: plugins, programs and their nodes *)

\* A node behind an Rc: the name of the class it reports, the node type, its
\* variant as the parts that split('#') yields, and the allocation it is
\* (the program and id it was cloned for, or the plugin for a prototype).
NodeInstance(class, type, variant, origin) ==
    [ class |-> class, type |-> type, variant |-> variant, origin |-> origin ]

\* The prototype of start_node_class(): StartNode named "default".
StartPrototype ==
    NodeInstance("start", "StartNode", <<"start", "default", "[]">>, <<"std">>)

\* The prototype of subroutine_class(): a call of a supplied subroutine.
CallPrototype ==
    NodeInstance("subroutine", "SubroutineCall", <<"supplied">>, <<"std">>)

\* The prototype of a class that a host plugin names "start" as well.
PluginPrototype == NodeInstance("start", "PluginNode", <<>>, <<"plug">>)

\* Node::set_variant: None where it panics.  StartNode takes its name and its
\* outputs from the second and the third part and unwraps both;
\* SubroutineCall takes "supplied" and unwraps strip_prefix("subroutine:")
\* on anything else; the plugin node keeps any text.
SetVariant(node, variant) ==
    CASE node.type = "StartNode" ->
            IF Len(variant) < 3
            THEN None
            ELSE Some([node EXCEPT !.variant = <<"start", variant[2], variant[3]>>])
      [] node.type = "SubroutineCall" ->
            IF variant = <<"supplied">> THEN Some(node) ELSE None
      [] OTHER -> Some([node EXCEPT !.variant = variant])

\* Plugin::classes of StdPlugin and of the host plugin.
PluginClasses ==
    (ModulePath(<<"std">>, "start") :> Class("start", <<StartPrototype>>)) @@
    (ModulePath(<<"std">>, "subroutine") :> Class("subroutine", <<CallPrototype>>)) @@
    (ModulePath(<<"plug">>, "start") :> Class("start", <<PluginPrototype>>))

\* load_plugin: every class of the plugin goes through Module::insert.
RECURSIVE LoadPlugin(_, _, _)
LoadPlugin(tree, classes, paths) ==
    IF paths = {}
    THEN tree
    ELSE LET path == CHOOSE p \in paths : TRUE
         IN  LoadPlugin(ModuleInsert(tree, path, ItemClass(classes[path])).modules,
                        classes, paths \ {path})

NodeInfo(class, idx, variant) == [ class |-> class, idx |-> idx, variant |-> variant ]

ProtoClass(name, nodes) == [ name |-> name, nodes |-> nodes ]

StartVariant(name) == <<"start", name, "[]">>

\* The program files of this model, by name; all lie in the directory pkg.
ProgramNames == {"a", "b", "d", "p", "s", "w", "x"}

ProgramFile(name) ==
    CASE name = "a" ->       \* uses the class that b declares
            [ nodes |-> (0 :> NodeInfo(<<"std", "start">>, 0, StartVariant("main"))) @@
                        (1 :> NodeInfo(<<"pkg", "Cls">>, 0, <<"supplied">>)),
              classes |-> <<>> ]
      [] name = "b" ->       \* declares Cls with the methods 2, 1
            [ nodes |-> (0 :> NodeInfo(<<"std", "start">>, 0, StartVariant("main"))) @@
                        (1 :> NodeInfo(<<"std", "subroutine">>, 0, <<"supplied">>)) @@
                        (2 :> NodeInfo(<<"plug", "start">>, 0, <<"m">>)),
              classes |-> << ProtoClass("Cls", <<2, 1>>) >> ]
      [] name = "d" ->       \* declares Cls again
            [ nodes |-> (0 :> NodeInfo(<<"std", "subroutine">>, 0, <<"supplied">>)),
              classes |-> << ProtoClass("Cls", <<0>>) >> ]
      [] name = "p" ->       \* nodes of the plugin class next to start nodes
            [ nodes |-> (0 :> NodeInfo(<<"plug", "start">>, 0, <<"v", "main">>)) @@
                        (1 :> NodeInfo(<<"plug", "start">>, 0, <<"entry">>)) @@
                        (2 :> NodeInfo(<<"std", "start">>, 0, StartVariant("aux"))) @@
                        (3 :> NodeInfo(<<"std", "start">>, 0, StartVariant("main"))),
              classes |-> <<>> ]
      [] name = "s" ->       \* has a node of the class Own it declares itself
            [ nodes |-> (0 :> NodeInfo(<<"std", "start">>, 0, StartVariant("main"))) @@
                        (1 :> NodeInfo(<<"pkg", "Own">>, 0, <<"m">>)),
              classes |-> << ProtoClass("Own", <<0>>) >> ]
      [] name = "w" ->       \* declares Tw twice
            [ nodes |-> (0 :> NodeInfo(<<"std", "subroutine">>, 0, <<"supplied">>)) @@
                        (1 :> NodeInfo(<<"std", "start">>, 0, StartVariant("aux"))),
              classes |-> << ProtoClass("Tw", <<0>>), ProtoClass("Tw", <<1>>) >> ]
      [] OTHER ->            \* x: a prototype index the class does not have
            [ nodes |-> (0 :> NodeInfo(<<"std", "start">>, 1, StartVariant("main"))),
              classes |-> <<>> ]

ProgramId(name) == ModulePath(<<"pkg">>, name)

\* The path load_program gives a declared class: the path of the program
\* with the class name as its leaf.
ClassPath(program, class_name) == ModulePath(Front(ProgramId(program)), class_name)

\* What one step of a load yields: a node or a panic.
Instantiated(node) == [ node |-> Some(node), error |-> "ok" ]

Refused(error) == [ node |-> None, error |-> error ]

\* class.nodes[idx] clamped to the last prototype of the class.
PrototypeAtClamped(class, idx) ==
    IF class.nodes = <<>>
    THEN None
    ELSE Some(class.nodes[IF idx < Len(class.nodes) THEN idx + 1 ELSE Len(class.nodes)])

\* class.nodes[idx]: the indexing of a Vec checks the bound and panics (None).
PrototypeAt(class, idx) ==
    IF idx < Len(class.nodes) THEN Some(class.nodes[idx + 1]) ELSE None

\* LoadedProgram::insert_raw_node_at: the class name is asserted, the
\* prototype is cloned into an allocation of its own and given the variant.
InsertRawNodeAt(program, node_id, info, class) ==
    IF Last(info.class) # class.name
    THEN Refused("assert_eq: class name differs")
    ELSE LET prototype == PrototypeAt(class, info.idx) IN
         IF prototype = None
         THEN Refused("index out of bounds")
         ELSE LET clone == [prototype[1] EXCEPT !.origin = <<program, node_id>>]
                  node == SetVariant(clone, info.variant)
              IN  IF node = None
                  THEN Refused("set_variant: unwrap on None")
                  ELSE Instantiated(node[1])

\* The body of the node loop of load_program for one node.
InstantiateNode(tree, program, node_id, info) ==
    LET class == GetClass(tree, info.class) IN
    IF class = None
    THEN Refused("get_class: unwrap on None")
    ELSE InsertRawNodeAt(program, node_id, info, class[1])

\* The first loop of load_program: each declared class is inserted, empty,
\* at its class path.
RECURSIVE DeclareClasses(_, _, _, _)
DeclareClasses(tree, program, classes, k) ==
    IF k > Len(classes)
    THEN Inserted(tree, FALSE)
    ELSE LET done == ModuleInsert(tree, ClassPath(program, classes[k].name),
                                  ItemClass(Class(classes[k].name, <<>>)))
         IN  IF done.panicked
             THEN done
             ELSE DeclareClasses(done.modules, program, classes, k + 1)

Filled(tree, error) == [ modules |-> tree, error |-> error ]

\* The last loop of load_program: the nodes of each declared class become
\* the loaded nodes its declaration lists.
RECURSIVE FillClasses(_, _, _, _, _)
FillClasses(tree, nodes, program, classes, k) ==
    IF k > Len(classes)
    THEN Filled(tree, "ok")
    ELSE LET path == ClassPath(program, classes[k].name)
             ids == classes[k].nodes
         IN  IF GetClass(tree, path) = None
             THEN Filled(tree, "get_class_mut: unwrap on None")
             ELSE IF \E i \in 1..Len(ids) : ids[i] \notin DOMAIN nodes
                  THEN Filled(tree, "get_node: unwrap on None")
                  ELSE FillClasses(
                         [tree EXCEPT ![path].nodes =
                             [ i \in 1..Len(ids) |-> nodes[ids[i]] ]],
                         nodes, program, classes, k + 1)

\* impl From<&Program> for LoadedProgram, and the nodes given to it.
LoadedProgram(nodes) == [ nodes |-> nodes ]

NoNodes == [ id \in {} |-> StartPrototype ]

\* load_program.  A panic ends the load: the registry is then no longer
\* used, and the model keeps it as it was before the call.  When several
\* nodes would panic, the order of the HashMap decides which one does.
load_program(name) ==
    /\ load = "ok"
    /\ name \in pending
    /\ LET file == ProgramFile(name)
           declared == DeclareClasses(modules, name, file.classes, 1)
           made == [ id \in DOMAIN file.nodes |->
                       InstantiateNode(declared.modules, name, id, file.nodes[id]) ]
           failing == { id \in DOMAIN file.nodes : made[id].error # "ok" }
           before == IF name \in DOMAIN programs THEN programs[name].nodes ELSE NoNodes
           nodes == [ id \in DOMAIN file.nodes |-> made[id].node[1] ] @@ before
           filled == FillClasses(declared.modules, nodes, name, file.classes, 1)
       IN  IF declared.panicked
           THEN /\ load' = "Attempt to index non-module item."
                /\ UNCHANGED <<modules, programs, pending>>
           ELSE IF failing # {}
           THEN /\ \E id \in failing : load' = made[id].error
                /\ UNCHANGED <<modules, programs, pending>>
           ELSE IF filled.error # "ok"
           THEN /\ load' = filled.error
                /\ UNCHANGED <<modules, programs, pending>>
           ELSE /\ load' = "ok"
                /\ modules' = filled.modules
                /\ programs' = (name :> LoadedProgram(nodes)) @@ programs
                /\ pending' = pending \ {name}
    /\ load_op' = LoadOp("load_program", ProgramId(name), ItemModule, None)
    /\ UNCHANGED <<exec_vars, store_vars, storage_vars, codec_vars, node_vars>>

\* LoadedProgram::get_start_node: the nodes in the order of their ids; a
\* node whose class is named "start" and whose variant has no second part
\* ends the search with None.
RECURSIVE StartNodeFrom(_, _, _)
StartNodeFrom(nodes, name, ids) ==
    IF ids = {}
    THEN None
    ELSE LET node_id == CHOOSE i \in ids : \A j \in ids : i <= j
             rest == ids \ {node_id}
         IN  IF nodes[node_id].class = "start"
             THEN IF Len(nodes[node_id].variant) < 2
                  THEN None
                  ELSE IF nodes[node_id].variant[2] = name
                       THEN Some(node_id)
                       ELSE StartNodeFrom(nodes, name, rest)
             ELSE StartNodeFrom(nodes, name, rest)

\* LoadedProgramData::get_start_node: None for a program that is not loaded.
GetStartNode(progs, program, name) ==
    IF program \notin DOMAIN progs
    THEN None
    ELSE StartNodeFrom(progs[program].nodes, name, DOMAIN progs[program].nodes)

EntryNames == {"main", "aux", "other"}

get_start_node(program, name) ==
    /\ load = "ok"
    /\ load_op' = LoadOp("get_start_node", ProgramId(program),
                         ModuleItem("entry", name, <<>>),
                         GetStartNode(programs, program, name))
    /\ UNCHANGED <<modules, programs, pending, load, exec_vars, store_vars,
                   storage_vars, codec_vars, node_vars>>

\* The collections the model loads have at most MaxPrograms programs.
MaxPrograms == 2

ProgramCollections ==
    { c \in SUBSET ProgramNames : c # {} /\ Cardinality(c) <= MaxPrograms }

\* The executor after load_plugin of both plugins, given a collection.
LoadInit ==
    /\ ExecInit
    /\ connections = NoValues
    /\ store_op = NoStoreOp
    /\ storage = EmptyStorage
    /\ storage_op = NoStorageOp
    /\ modules = LoadPlugin(EmptyModule, PluginClasses, DOMAIN PluginClasses)
    /\ programs = NoPrograms
    /\ pending \in ProgramCollections
    /\ load = "ok"
    /\ load_op = NoLoadOp
    /\ codec_op = NoCodecOp
    /\ variables = NoVariables
    /\ node_op = NoNodeOp

\* load_programs loads the collection in the order of its HashMap.
LoadNext ==
    \/ \E name \in ProgramNames : load_program(name)
    \/ \E program \in ProgramNames, name \in EntryNames :
          get_start_node(program, name)

LoadSpec == LoadInit /\ [][LoadNext]_vars

----------------------------------------------------------------------------
(* Packed ids: SocketId and NodeBranchId as one u64 *)

\* An unsigned integer is kept as the set of the positions of its one bits,
\* position 0 being the lowest, so that every width is the real one.
U32 == 32

U64 == 64

Bits(width) == 0..(width - 1)

\* x as uN: the bits above the width are cut off.
Cast(x, width) == { i \in Bits(width) : i \in x }

\* x << k in a type of the given width.
Shl(x, k, width) == { i \in Bits(width) : (i - k) \in x }

\* x >> k.
Shr(x, k) == { i \in Bits(U64) : (i + k) \in x }

BitAnd(x, y) == { i \in Bits(U64) : i \in x /\ i \in y }

BitOr(x, y) == { i \in Bits(U64) : i \in x \/ i \in y }

\* (1 << k) - 1 as u64.
Ones(k) == Bits(k)

\* The node ids and the indexes of the model: every choice of these bits.
IdBits == {0, 1, 31}

Ids32 == SUBSET IdBits

\* From<&NodeBranchId> for u64: (s.0 as u64) << 32 | s.1 as u64.
BranchIdToU64(id) == BitOr(Shl(Cast(id[1], U64), 32, U64), Cast(id[2], U64))

\* From<u64> for NodeBranchId: both fields are a mask of n cast to u32; the
\* node id is not shifted down before the cast.
BranchIdFromU64(n) ==
    LET branch_idx == Cast(BitAnd(Ones(33), n), U32)
        node_id == Cast(BitAnd(Shl(Ones(33), 32, U64), n), U32)
    IN  <<node_id, branch_idx>>

\* From<&SocketId> for u64.
SocketIdToU64(id) == BitOr(Shl(Cast(id[1], U64), 32, U64), Cast(id[2], U64))

\* From<u64> for SocketId that masks the high half without shifting it.
SocketIdFromU64Masked(n) ==
    <<Cast(BitAnd(Shl(Ones(32), 32, U64), n), U32), Cast(n, U32)>>

\* From<u64> for SocketId: ((n >> 32) as u32, n as u32).
SocketIdFromU64(n) == <<Cast(Shr(n, 32), U32), Cast(n, U32)>>

Convert(name, input, output) ==
    /\ codec_op' = CodecOp(name, input, output, "none")
    /\ UNCHANGED <<exec_vars, store_vars, storage_vars, registry_vars, node_vars>>

\* Serialize for NodeBranchId / SocketId: the id becomes its u64.
serialize_branch_id(id) == Convert("branch_to_u64", id, <<BranchIdToU64(id)>>)

serialize_socket_id(id) == Convert("socket_to_u64", id, <<SocketIdToU64(id)>>)

\* Deserialize: the u64 that was written is read back.
deserialize_branch_id ==
    /\ codec_op.name = "branch_to_u64"
    /\ Convert("branch_from_u64", codec_op.output, BranchIdFromU64(codec_op.output[1]))

deserialize_socket_id ==
    /\ codec_op.name = "socket_to_u64"
    /\ Convert("socket_from_u64", codec_op.output, SocketIdFromU64(codec_op.output[1]))

IdNext ==
    \/ \E node_id \in Ids32, idx \in Ids32 : serialize_branch_id(<<node_id, idx>>)
    \/ \E node_id \in Ids32, idx \in Ids32 : serialize_socket_id(<<node_id, idx>>)
    \/ deserialize_branch_id
    \/ deserialize_socket_id

IdSpec == Init /\ [][IdNext]_vars

----------------------------------------------------------------------------
(* Text forms: module paths and absolute node ids *)

\* A text is a sequence of characters, a name a text, and a module path the
\* sequence of its names, the leaf last.
MaxName == 1      \* characters of a name of a generated path

MaxPath == 3      \* names of a generated path, the leaf included

MaxText == 3      \* characters of a text given to a parser

RECURSIVE Texts(_, _)
Texts(chars, len) ==
    IF len = 0
    THEN {<<>>}
    ELSE LET shorter == Texts(chars, len - 1)
         IN  shorter \cup { Append(t, c) : t \in shorter, c \in chars }

\* str::split(sep): the pieces between the separators; a text without a
\* separator, the empty text too, is one piece.
RECURSIVE Split(_, _)
Split(text, sep) ==
    IF \A i \in 1..Len(text) : text[i] # sep
    THEN <<text>>
    ELSE LET at == CHOOSE i \in 1..Len(text) :
                      /\ text[i] = sep
                      /\ \A j \in 1..(i - 1) : text[j] # sep
         IN  <<SubSeq(text, 1, at - 1)>> \o Split(SubSeq(text, at + 1, Len(text)), sep)

\* [String]::join(sep).
RECURSIVE Join(_, _)
Join(pieces, sep) ==
    IF pieces = <<>>
    THEN <<>>
    ELSE IF Len(pieces) = 1
         THEN pieces[1]
         ELSE pieces[1] \o <<sep>> \o Join(Tail(pieces), sep)

\* Result<T, E> of a parser.
Parsed(value) == [ ok |-> TRUE, value |-> value, error |-> "none" ]

ParseError(error) == [ ok |-> FALSE, value |-> <<>>, error |-> error ]

\* Display for ModulePath: segments and leaf joined with '.'.
ModulePathToString(path) == Join(path, ".")

\* FromStr for ModulePath whose leaf is the first piece.
ModulePathFromStrLeafFirst(text) ==
    LET seq == Split(text, ".")
    IN  Parsed(ModulePath(Tail(seq), Head(seq)))

\* FromStr for ModulePath: split on '.', pop the leaf; NotEnoughItems when
\* there is nothing to pop.
ModulePathFromStr(text) ==
    LET seq == Split(text, ".")
    IN  IF seq = <<>>
        THEN ParseError("NotEnoughItems")
        ELSE Parsed(ModulePath(Front(seq), Last(seq)))

NameChars == {"a", "b"}

Names == Texts(NameChars, MaxName)

\* The module paths whose names have no '.'.
RECURSIVE PathsOfLength(_)
PathsOfLength(len) ==
    IF len = 1
    THEN { <<n>> : n \in Names }
    ELSE { Append(p, n) : p \in PathsOfLength(len - 1), n \in Names }

Paths == UNION { PathsOfLength(len) : len \in 1..MaxPath }

TextChars == {"a", ".", "@", "1"}

ParserTexts == Texts(TextChars, MaxText)

Report(name, input, result) ==
    /\ codec_op' = CodecOp(name, input, result.value, result.error)
    /\ UNCHANGED <<exec_vars, store_vars, storage_vars, registry_vars, node_vars>>

\* Each behaviour converts one value: nothing has been converted yet.
Unused == codec_op.name = "none"

\* to_string of a module path; the text is kept as a one-piece sequence.
module_path_to_string(path) ==
    /\ Unused
    /\ Report("path_to_string", path, Parsed(<<ModulePathToString(path)>>))

\* parse of the text that to_string gave.
module_path_parse_back ==
    /\ codec_op.name = "path_to_string"
    /\ Report("path_parse_back", codec_op.output, ModulePathFromStr(codec_op.output[1]))

\* parse of any text.
module_path_parse(text) ==
    /\ Unused
    /\ Report("path_parse", <<text>>, ModulePathFromStr(text))

\* The decimal digits, digit d at position d + 1.
DigitChars == <<"0", "1", "2", "3", "4", "5", "6", "7", "8", "9">>

IsDigit(c) == \E d \in 1..Len(DigitChars) : DigitChars[d] = c

DigitValue(c) == (CHOOSE d \in 1..Len(DigitChars) : DigitChars[d] = c) - 1

RECURSIVE DecimalValue(_)
DecimalValue(digits) ==
    IF digits = <<>>
    THEN 0
    ELSE 10 * DecimalValue(Front(digits)) + DigitValue(Last(digits))

\* str::parse::<u32>: an optional '+', then one digit at least and digits
\* only.  The texts of the model are too short to overflow a u32.
ParseU32(text) ==
    LET digits == IF text # <<>> /\ Head(text) = "+" THEN Tail(text) ELSE text
    IN  IF digits = <<>> \/ \E i \in 1..Len(digits) : ~IsDigit(digits[i])
        THEN ParseError("NodeIdParseError")
        ELSE Parsed(DecimalValue(digits))

\* Display for u32.
RECURSIVE U32ToString(_)
U32ToString(n) ==
    IF n < 10
    THEN <<DigitChars[n + 1]>>
    ELSE Append(U32ToString(n \div 10), DigitChars[(n % 10) + 1])

\* An AbsoluteNodeId as a sequence of names: the names of its program path,
\* then its node id as that many strokes.
Strokes(n) == [ i \in 1..n |-> "|" ]

AbsoluteNodeId(path, node_id) == Append(path, Strokes(node_id))

\* Display for AbsoluteNodeId: "{path}@{id}".
AbsoluteNodeIdToString(path, node_id) ==
    ModulePathToString(path) \o <<"@">> \o U32ToString(node_id)

\* FromStr for AbsoluteNodeId: split on '@', pop and parse the node id, then
\* parse seq[0] as the path; seq[0] of an empty Vec panics.
AbsoluteNodeIdFromStr(text) ==
    LET seq == Split(text, "@")
        node_id == ParseU32(Last(seq))
        rest == Front(seq)
    IN  IF seq = <<>>
        THEN ParseError("IdNotFound")
        ELSE IF ~node_id.ok
        THEN ParseError("NodeIdParseError")
        ELSE IF rest = <<>>
        THEN ParseError("panic: index out of bounds")
        ELSE LET path == ModulePathFromStr(rest[1])
             IN  IF ~path.ok
                 THEN ParseError("ProgramIdParseError")
                 ELSE Parsed(AbsoluteNodeId(path.value, node_id.value))

\* The node ids written into texts.
TextNodeIds == {0, 1, 10, 11}

absolute_node_id_to_string(path, node_id) ==
    /\ Unused
    /\ Report("id_to_string", AbsoluteNodeId(path, node_id),
              Parsed(<<AbsoluteNodeIdToString(path, node_id)>>))

absolute_node_id_parse_back ==
    /\ codec_op.name = "id_to_string"
    /\ Report("id_parse_back", codec_op.output, AbsoluteNodeIdFromStr(codec_op.output[1]))

absolute_node_id_parse(text) ==
    /\ Unused
    /\ Report("id_parse", <<text>>, AbsoluteNodeIdFromStr(text))

\* Variants of the standard nodes.  A variant text is a sequence of
\* characters in which a keyword of the grammar ("print", "println",
\* "array-", "subroutine:", "supplied", "start", "end", "[]", an entry name)
\* stands as one character.

\* Display for PrintVariant: always "<kind>:<amount>".
PrintVariantToString(variant) ==
    <<IF variant.ln THEN "println" ELSE "print", ":">> \o U32ToString(variant.amount)

\* FromStr for PrintVariant.
PrintVariantFromStr(text) ==
    IF text = <<"print">>
    THEN Parsed([ ln |-> FALSE, amount |-> 1 ])
    ELSE IF text = <<"println">>
    THEN Parsed([ ln |-> TRUE, amount |-> 1 ])
    ELSE LET pieces == Split(text, ":") IN
         IF Len(pieces) # 2
         THEN ParseError("InvalidVariant")
         ELSE IF pieces[1] \notin {<<"print">>, <<"println">>}
         THEN ParseError("InvalidPrintKind")
         ELSE LET amount == ParseU32(pieces[2]) IN
              IF ~amount.ok
              THEN ParseError("AmountParseError")
              ELSE Parsed([ ln |-> pieces[1] = <<"println">>, amount |-> amount.value ])

\* Print::set_variant (parse().unwrap()) followed by Print::current_variant.
PrintVariantRoundTrip(text) ==
    LET variant == PrintVariantFromStr(text) IN
    IF variant.ok
    THEN Parsed(<<PrintVariantToString(variant.value)>>)
    ELSE ParseError("panic: unwrap on Err")

\* ArrayConstructor: strip_prefix("array-").unwrap().parse().unwrap(), then
\* format!("array-{}").
ArrayVariantRoundTrip(text) ==
    IF text = <<>> \/ Head(text) # "array-"
    THEN ParseError("panic: unwrap on None")
    ELSE LET size == ParseU32(Tail(text)) IN
         IF ~size.ok
         THEN ParseError("panic: unwrap on Err")
         ELSE Parsed(<<<<"array-">> \o U32ToString(size.value)>>)

\* FromStr for Subroutine: the prefix is stripped, the two ids are the
\* pieces between ':' and are parsed as absolute node ids.
SubroutineFromStr(text) ==
    IF text = <<>> \/ Head(text) # "subroutine:"
    THEN ParseError("panic: unwrap on None")
    ELSE LET ids == Split(Tail(text), ":") IN
         IF Len(ids) < 2
         THEN ParseError("panic: unwrap on None")
         ELSE LET input == AbsoluteNodeIdFromStr(ids[1])
                  output == AbsoluteNodeIdFromStr(ids[2])
              IN  IF ~input.ok
                  THEN ParseError(input.error)
                  ELSE IF ~output.ok
                  THEN ParseError(output.error)
                  ELSE Parsed(<<input.value, output.value>>)

\* Display for an AbsoluteNodeId kept as names and strokes.
ShowAbsoluteNodeId(id) == AbsoluteNodeIdToString(Front(id), Len(Last(id)))

\* SubroutineCall::set_variant on the prototype (Supplied), followed by
\* current_variant: "supplied" and a text that does not parse leave the
\* target as it is.
SubroutineVariantRoundTrip(text) ==
    IF text = <<"supplied">>
    THEN Parsed(<<text>>)
    ELSE LET subroutine == SubroutineFromStr(text) IN
         IF subroutine.ok
         THEN Parsed(<< <<"subroutine:">> \o ShowAbsoluteNodeId(subroutine.value[1])
                        \o <<":">> \o ShowAbsoluteNodeId(subroutine.value[2]) >>)
         ELSE IF subroutine.error \in {"panic: unwrap on None", "panic: index out of bounds"}
              THEN ParseError(subroutine.error)
              ELSE Parsed(<< <<"supplied">> >>)

\* StartNode: the name and the socket list are the second and the third part
\* between '#'; the socket list goes through ron, which reads "[]" as the
\* empty list and writes the empty list as "[]".
StartVariantRoundTrip(text) ==
    LET parts == Split(text, "#") IN
    IF Len(parts) < 3
    THEN ParseError("panic: unwrap on None")
    ELSE IF parts[3] # <<"[]">>
    THEN ParseError("panic: unwrap on Err")
    ELSE Parsed(<< <<"start", "#">> \o parts[2] \o <<"#", "[]">> >>)

\* EndNode: strip_prefix("end"), the rest goes through ron.
EndVariantRoundTrip(text) ==
    IF text = <<>> \/ Head(text) # "end"
    THEN ParseError("panic: unwrap on None")
    ELSE IF Tail(text) # <<"[]">>
    THEN ParseError("panic: unwrap on Err")
    ELSE Parsed(<< <<"end", "[]">> >>)

\* The variant texts of each grammar that the model writes.
VariantAmounts == {<<"0">>, <<"1">>, <<"2">>, <<"1", "0">>}

VariantIds == { AbsoluteNodeIdToString(<< <<"a">> >>, n) : n \in {0, 1} }

VariantTexts(class) ==
    CASE class = "print" ->
            {<<"print">>, <<"println">>} \cup
            { <<kind, ":">> \o amount : kind \in {"print", "println"},
                                       amount \in VariantAmounts }
      [] class = "array" -> { <<"array-">> \o amount : amount \in VariantAmounts }
      [] class = "subroutine" ->
            {<<"supplied">>} \cup
            { <<"subroutine:">> \o entry \o <<":">> \o exit :
                entry \in VariantIds, exit \in VariantIds }
      [] class = "start" -> { <<"start", "#", name, "#", "[]">> : name \in {"main", "aux"} }
      [] OTHER -> { <<"end", "[]">> }

VariantClasses == {"print", "array", "subroutine", "start", "end"}

VariantRoundTrip(class, text) ==
    CASE class = "print" -> PrintVariantRoundTrip(text)
      [] class = "array" -> ArrayVariantRoundTrip(text)
      [] class = "subroutine" -> SubroutineVariantRoundTrip(text)
      [] class = "start" -> StartVariantRoundTrip(text)
      [] OTHER -> EndVariantRoundTrip(text)

\* set_variant(text) on the prototype of the class, then current_variant().
set_variant_then_current(class, text) ==
    /\ Unused
    /\ Report("set_variant", <<text>>, VariantRoundTrip(class, text))

TextNext ==
    \/ \E path \in Paths : module_path_to_string(path)
    \/ module_path_parse_back
    \/ \E text \in ParserTexts : module_path_parse(text)
    \/ \E path \in Paths, node_id \in TextNodeIds :
          absolute_node_id_to_string(path, node_id)
    \/ absolute_node_id_parse_back
    \/ \E text \in ParserTexts : absolute_node_id_parse(text)
    \/ \E class \in VariantClasses :
          \E text \in VariantTexts(class) : set_variant_then_current(class, text)

TextSpec == Init /\ [][TextNext]_vars

----------------------------------------------------------------------------
(* The standard nodes: what Node::execute does with its context *)

MaxInputs == 2    \* arguments of a call, values of a return or an array

\* The lists of at most len of the given objects.
ObjectSeqs(objects, len) == UNION { [1..n -> objects] : n \in 0..len }

\* The arguments of calls and the values of returns and arrays.
Arguments == ObjectSeqs({BoolTrue, BoolFalse}, MaxInputs)

\* Numbers and strings, the conditions of an if node besides the booleans.
NumberZero == Obj("number", "0", 0)

NumberOne == Obj("number", "1", 0)

StringEmpty == Obj("string", "", 0)

StringA == Obj("string", "a", 0)

Conditions == Objects \cup {NumberZero, NumberOne, StringEmpty, StringA}

\* Object::as_bool: a bool is itself, a number is true when it is not 0.0,
\* a string when it is not empty; None where it panics (a subroutine).
AsBool(object) ==
    CASE object.class = "bool" -> Some(object.text = "true")
      [] object.class = "number" -> Some(object.text # "0")
      [] object.class = "string" -> Some(object.text # "")
      [] OTHER -> None

\* Object::as_string: to_string().
AsString(object) == object.text

\* Object::as_number: a bool is 1.0 or 0.0, a number is itself, a string is
\* parsed; None where it panics (a subroutine, a string that is no number).
AsNumber(object) ==
    CASE object.class = "bool" -> Some(IF object.text = "true" THEN "1" ELSE "0")
      [] object.class = "number" -> Some(object.text)
      [] object.class = "string" /\ object.text \in {"0", "1"} -> Some(object.text)
      [] OTHER -> None

\* The standard nodes with their variants.
NodeKinds ==
    { <<"start", "start">>, <<"end", "end">>, <<"if", "if">>, <<"nop", "nop">>,
      <<"print", "println:1">>, <<"bool", "bool">>, <<"number", "number">>,
      <<"string", "string">>, <<"array", "array">>,
      <<"variable_get", "get">>, <<"variable_set", "set">>,
      <<"subroutine", "supplied">>, <<"subroutine", "fixed">> }

\* Node::branches: 1 unless the node says otherwise; the if node says 2.
Branches(class) == IF class = "if" THEN 2 ELSE 1

\* The inputs a node is executed with: as many as Node::inputs() has sockets,
\* or fewer where connections are missing.  The end node, the array
\* constructor and the fixed call take what their variant says; the supplied
\* call takes one input more, the subroutine object.
Inputs(kind) ==
    CASE kind[1] \in {"start", "nop"} -> {<<>>}
      [] kind[1] = "if" -> ObjectSeqs(Conditions, 1)
      [] kind[1] \in {"bool", "number", "string", "print", "variable_get"} ->
            ObjectSeqs(Objects, 1)
      [] kind[1] = "variable_set" -> ObjectSeqs(Objects, 2)
      [] kind = <<"subroutine", "supplied">> ->
            {<<>>} \cup { <<first>> \o rest : first \in Objects, rest \in Arguments }
      [] OTHER -> Arguments

\* The variable map of the execution context, a flat map from name to
\* object: get_variable reads it, set_variable writes one name.
GetVariable(map, name) == map[name]

SetVariable(map, name, object) == [map EXCEPT ![name] = Some(object)]

\* What execute leaves: the branch, the panic, the outputs of the context,
\* the call stack, the variables, the values passed on.
Executed(branch, outputs, stack, map, passed) ==
    [ branch |-> branch, error |-> "none", outputs |-> outputs, stack |-> stack,
      variables |-> map, passed |-> passed ]

Panicked(error, stack, map) ==
    [ branch |-> 0, error |-> error, outputs |-> None, stack |-> stack,
      variables |-> map, passed |-> <<>> ]

\* `cond as usize` with the two values exchanged.
BoolAsBranchInverted(cond) == IF cond THEN 0 ELSE 1

\* `cond as usize`.
BoolAsBranch(cond) == IF cond THEN 1 ELSE 0

\* IfNode::execute: get_inputs()[0].as_bool() as usize.
IfExecute(inputs, stack, map) ==
    IF inputs = <<>>
    THEN Panicked("index out of bounds", stack, map)
    ELSE IF AsBool(inputs[1]) = None
    THEN Panicked("Cannot convert to bool", stack, map)
    ELSE Executed(BoolAsBranch(AsBool(inputs[1])[1]), None, stack, map, <<>>)

\* BoolNode, NumberNode, StringNode: the first input converted, as the one
\* output.
ConvertExecute(class, inputs, stack, map) ==
    IF inputs = <<>>
    THEN Panicked("index out of bounds", stack, map)
    ELSE LET text == CASE class = "bool" ->
                            IF AsBool(inputs[1]) = None
                            THEN None
                            ELSE Some(IF AsBool(inputs[1])[1] THEN "true" ELSE "false")
                       [] class = "number" -> AsNumber(inputs[1])
                       [] OTHER -> Some(AsString(inputs[1]))
         IN  IF text = None
             THEN Panicked("Cannot convert", stack, map)
             ELSE Executed(0, Some(<<Obj(class, text[1], 0)>>), stack, map, <<>>)

\* ArrayConstructor::execute: all inputs as one array.
ArrayExecute(inputs, stack, map) ==
    Executed(0, Some(<<Obj("array", "array", Len(inputs))>>), stack, map, <<>>)

\* VariableGet::execute: the variable named by the first input as the one
\* output; no output when there is no input or no such variable.
VariableGetExecute(inputs, stack, map) ==
    LET found == IF inputs = <<>> THEN None ELSE GetVariable(map, AsString(inputs[1]))
    IN  Executed(0, Some(found), stack, map, <<>>)

\* The value VariableSet stores, taken from the input that names it.
VariableSetValueIsName(inputs) == inputs[1]

\* The value VariableSet stores: inputs[1], the second input.
VariableSetValue(inputs) == inputs[2]

\* VariableSet::execute: inputs[0] names the variable, inputs[1] is stored.
VariableSetExecute(inputs, stack, map) ==
    IF Len(inputs) < 2
    THEN Panicked("index out of bounds", stack, map)
    ELSE Executed(0, None, stack,
                  SetVariable(map, AsString(inputs[1]), VariableSetValue(inputs)),
                  <<>>)

\* EndNode::execute: finish_subroutine(inputs), which pops the stack and
\* then sets the outputs of its new top; with no frame left that panics.
EndExecute(inputs, stack, map) ==
    IF StackPop(stack) = <<>>
    THEN Panicked("current_node: unwrap on None", StackPop(stack), map)
    ELSE Executed(0, None, StackPop(stack), map, inputs)

\* The arguments of a supplied call with the subroutine object left in.
SuppliedArgumentsAll(inputs) == inputs

\* The arguments of a supplied call: what pop_front left of the inputs.
SuppliedArguments(inputs) == Tail(inputs)

\* SubroutineCall::execute.  Supplied: the first input is popped and must
\* downcast to Subroutine, its entry is called with the rest.  Fixed: the
\* entry of the variant is called with all inputs.
CallExecute(variant, inputs, stack, map) ==
    IF variant = "supplied"
    THEN IF inputs = <<>>
         THEN Panicked("pop_front: unwrap on None", stack, map)
         ELSE IF inputs[1].class # "subroutine"
         THEN Panicked("expected subroutine object to be supplied", stack, map)
         ELSE Executed(0, None, StackPush(stack, inputs[1].entry), map,
                       SuppliedArguments(inputs))
    ELSE Executed(0, None, StackPush(stack, SubroutineEntry), map, inputs)

\* Node::execute of each standard node.
Execute(kind, inputs, stack, map) ==
    CASE kind[1] = "if" -> IfExecute(inputs, stack, map)
      [] kind[1] \in {"bool", "number", "string"} ->
            ConvertExecute(kind[1], inputs, stack, map)
      [] kind[1] = "array" -> ArrayExecute(inputs, stack, map)
      [] kind[1] = "variable_get" -> VariableGetExecute(inputs, stack, map)
      [] kind[1] = "variable_set" -> VariableSetExecute(inputs, stack, map)
      [] kind[1] = "end" -> EndExecute(inputs, stack, map)
      [] kind[1] = "subroutine" -> CallExecute(kind[2], inputs, stack, map)
      [] OTHER -> Executed(0, None, stack, map, <<>>)

\* One node of the given kind is executed on top of the call stack.
execute_node(kind, inputs) ==
    /\ node_op.error = "none"
    /\ node_stack # <<>>
    /\ kind[1] = "subroutine" => Len(node_stack) < MaxStack
    /\ LET done == Execute(kind, inputs, node_stack, variables)
       IN  /\ node_stack' = done.stack
           /\ variables' = done.variables
           /\ node_op' = NodeOp(kind[1], kind[2], inputs, done.branch,
                                done.error, done.outputs, done.passed)
    /\ UNCHANGED <<node_outputs, auto_execution, stop_point, loaded, pc, fault,
                   ctx, op, resumed, lock, store_vars, storage_vars, registry_vars,
                   codec_vars>>

\* Objects of class any: a text that is cast when it is used.
AnyObjects == { Obj("any", text, 0) : text \in {"true", "1", "a", ""} }

\* The classes an object is cast to; the class of the if node has no
\* from-text parser (obj_from_str: None).
CastClasses == {"bool", "number", "string", "if"}

\* Class.obj_from_str: None for a class without a parser, else the parser,
\* which gives Some(object) or None for a text it refuses.  bool::from_str
\* takes "true" and "false", f64::from_str a number, String::from_str all.
ObjFromStr(class) ==
    CASE class = "bool" ->
            Some([ text \in {"true", "1", "a", "", "false", "0"} |->
                     IF text \in {"true", "false"} THEN Some(Obj("bool", text, 0)) ELSE None ])
      [] class = "number" ->
            Some([ text \in {"true", "1", "a", "", "false", "0"} |->
                     IF text \in {"0", "1"} THEN Some(Obj("number", text, 0)) ELSE None ])
      [] class = "string" ->
            Some([ text \in {"true", "1", "a", "", "false", "0"} |-> Some(Obj("string", text, 0)) ])
      [] OTHER -> None

\* cast_to without the test of the object's class.
CastToOfAnyClass(object, to) ==
    IF ObjFromStr(to) = None
    THEN [ error |-> "unwrap on None", object |-> None ]
    ELSE IF ObjFromStr(to)[1][AsString(object)] = None
    THEN [ error |-> "unwrap on Err", object |-> None ]
    ELSE [ error |-> "none", object |-> ObjFromStr(to)[1][AsString(object)] ]

\* Object::cast_to: an object of class any is parsed by the parser of the
\* target class from its as_string(); both unwraps panic, and so does
\* unimplemented!() for an object of another class.
CastTo(object, to) ==
    IF object.class # "any"
    THEN [ error |-> "not implemented", object |-> None ]
    ELSE IF ObjFromStr(to) = None
    THEN [ error |-> "unwrap on None", object |-> None ]
    ELSE IF ObjFromStr(to)[1][AsString(object)] = None
    THEN [ error |-> "unwrap on Err", object |-> None ]
    ELSE [ error |-> "none", object |-> ObjFromStr(to)[1][AsString(object)] ]

\* An object is cast to a class.
cast_to(object, to) ==
    /\ node_op.error = "none"
    /\ node_op' = NodeOp("cast", to, <<object>>, 0, CastTo(object, to).error,
                         CastTo(object, to).object, <<>>)
    /\ UNCHANGED <<node_stack, variables, node_outputs, auto_execution, stop_point,
                   loaded, pc, fault, ctx, op, resumed, lock, store_vars, storage_vars,
                   registry_vars, codec_vars>>

\* The executor with the main start node on its stack.
NodeInit ==
    /\ node_stack = <<StartNodeOfMain>>
    /\ node_outputs = NoOutputs
    /\ auto_execution = FALSE
    /\ stop_point = None
    /\ loaded = Program("start")
    /\ pc = "idle"
    /\ fault = "none"
    /\ ctx = NoContext
    /\ op = "none"
    /\ resumed = FALSE
    /\ lock = "free"
    /\ connections = NoValues
    /\ store_op = NoStoreOp
    /\ AuxInit

NodeNext ==
    \/ \E kind \in NodeKinds : \E inputs \in Inputs(kind) :
            execute_node(kind, inputs)
    \/ \E object \in AnyObjects \cup {BoolTrue, NumberOne} : \E to \in CastClasses :
            cast_to(object, to)

NodeSpec == NodeInit /\ [][NodeNext]_vars

----------------------------------------------------------------------------
(* Objects compared: ObjectPartialEq and ObjectPartialOrd *)

\* A second subroutine, entered at node 7.
OtherSubroutine == Obj("subroutine", "subroutine:main@7:main@6", 7)

\* Arrays, with their length in place of an entry, and dicts.
ArrayEmpty == Obj("array", "[]", 0)

ArrayOfTrue == Obj("array", "[true]", 1)

DictEmpty == Obj("dict", "{}", 0)

DictOfOne == Obj("dict", "{1:1}", 0)

\* The objects of each standard class in the ascending order of the concrete
\* type: PartialOrd of bool, f64 and String, the derived Ord of Subroutine
\* (by entry) and of Dict (a BTreeMap).  Array has no order of its own.
ClassOrder ==
    [ bool |-> <<BoolFalse, BoolTrue>>,
      number |-> <<NumberZero, NumberOne>>,
      string |-> <<StringEmpty, StringA>>,
      subroutine |-> <<SubroutineObject, OtherSubroutine>>,
      dict |-> <<DictEmpty, DictOfOne>>,
      array |-> <<ArrayEmpty, ArrayOfTrue>> ]

Compared == UNION { { ClassOrder[c][1], ClassOrder[c][2] } : c \in DOMAIN ClassOrder }

\* PartialOrd::partial_cmp of the concrete type, for two objects of a class.
ConcreteCmp(a, b) ==
    LET position(o) == IF ClassOrder[o.class][1] = o THEN 1 ELSE 2
    IN  IF position(a) < position(b) THEN "less"
        ELSE IF position(a) > position(b) THEN "greater"
        ELSE "equal"

\* The classes whose comparisons are derived (stainless_script_derive).
Derived == {"subroutine", "dict"}

\* The downcast of the derived comparisons: `&other as &dyn Any` is the Rc,
\* not the object in it, so downcast_ref::<Self>() is None for every other.
DowncastRef(a, b) == None

\* ObjectPartialEq::eq.  bool, f64 and String compare the converted other
\* when the classes are equal; Array compares the lengths and then needs the
\* downcast, as the derived eq does.
ObjectEq(a, b) ==
    IF a.class # b.class
    THEN FALSE
    ELSE IF a.class \in {"bool", "number", "string"}
    THEN a.text = b.text
    ELSE IF a.class = "array" /\ a.entry # b.entry
    THEN FALSE
    ELSE IF DowncastRef(a, b) = None THEN FALSE ELSE a = DowncastRef(a, b)[1]

\* ObjectPartialOrd::partial_cmp: Parsed(<<result>>), or the panic.  Array's
\* is todo!(); the derived one needs the downcast.
ObjectPartialCmp(a, b) ==
    IF a.class = "array"
    THEN ParseError("not yet implemented")
    ELSE IF a.class # b.class
    THEN Parsed(<<"incomparable">>)
    ELSE IF a.class \in {"bool", "number", "string"}
    THEN Parsed(<<ConcreteCmp(a, b)>>)
    ELSE IF DowncastRef(a, b) = None
    THEN Parsed(<<"incomparable">>)
    ELSE Parsed(<<ConcreteCmp(a, DowncastRef(a, b)[1])>>)

\* a.eq(b)
object_eq(a, b) ==
    /\ Unused
    /\ Report("eq", <<a, b>>, Parsed(<<IF ObjectEq(a, b) THEN "true" ELSE "false">>))

\* a.partial_cmp(b)
object_partial_cmp(a, b) ==
    /\ Unused
    /\ Report("partial_cmp", <<a, b>>, ObjectPartialCmp(a, b))

CompareNext ==
    \/ \E a \in Compared, b \in Compared : object_eq(a, b)
    \/ \E a \in Compared, b \in Compared : object_partial_cmp(a, b)

CompareSpec == Init /\ [][CompareNext]_vars

----------------------------------------------------------------------------
(* Claims about the executor *)

\* C1: execute_subroutine makes the call stack exactly one frame longer and
\* finish_subroutine makes it exactly one frame shorter; finish_subroutine is
\* never applied to an empty stack, so the length never goes below zero.
C1_StackGrowsAndShrinksByOne ==
    [][ /\ op' = "execute_subroutine" =>
              Len(node_stack') = Len(node_stack) + 1
        /\ op' = "finish_subroutine" =>
              /\ node_stack # <<>>
              /\ Len(node_stack') = Len(node_stack) - 1 ]_vars

\* A subroutine called from inside a subroutine has returned: the stack went
\* from three frames to two.
C1_Witness ==
    /\ op = "finish_subroutine"
    /\ pc = "exec"
    /\ Len(node_stack) = 2

\* C2: when an end node executes inside a subroutine called by node c,
\* finish_subroutine pops the end node's frame and stores the end node's
\* inputs as the outputs of c, and the step then advances along c's branch
\* edge: the next stack top is the successor of c.
C2_EndReturnsToCaller ==
    [][ /\ (op' = "finish_subroutine" /\ Kind(ctx.node) = "end"
              /\ Len(node_stack) >= 2) =>
              /\ node_stack' = Front(node_stack)
              /\ node_outputs'[Last(node_stack')] = Some(ctx.inputs)
        /\ (op' = "end_step" /\ Kind(ctx.node) = "end" /\ node_stack # <<>>) =>
              /\ pc' = "idle"
              /\ GetNextNode(Last(node_stack), 0) # None
              /\ node_stack' =
                    Append(Front(node_stack), GetNextNode(Last(node_stack), 0)[1])
              /\ node_outputs'[Last(node_stack)] = Some(ctx.inputs) ]_vars

\* C3: after execute_subroutine(target, args) the stack top is target, the
\* caller's frame is directly below it and target's outputs are args; they
\* are still args once the step that made the call has completed.
C3_ArgumentsReachTheEntry ==
    [][ /\ op' = "execute_subroutine" =>
              /\ Last(node_stack') = SubroutineEntry
              /\ Front(node_stack') = node_stack
              /\ node_outputs'[SubroutineEntry] # None
              /\ Kind(ctx.node) = "call" =>
                    node_outputs'[SubroutineEntry] = Some(ctx.inputs)
        /\ (op = "execute_subroutine" /\ op' = "end_step") =>
              /\ pc' = "idle"
              /\ node_outputs'[SubroutineEntry] = node_outputs[SubroutineEntry] ]_vars

\* C4: the main program start -> value -> end, which calls no subroutine,
\* runs to completion without a fault, and the call stack is empty exactly
\* when the execution has finished.
C4_MainRunsToCompletion ==
    Kind(StartNodeOfMain) = "start" =>
        /\ pc # "fault"
        /\ (pc \in {"idle", "exec"} /\ op # "end_step") => node_stack # <<>>

\* C5: a step that advances along a branch with no entry in the branch-edge
\* table does not fault.
C5_MissingEdgeIsNotAFault ==
    [][ (op' = "end_step" /\ ctx.outputs # None /\ node_stack # <<>>) =>
            pc' # "fault" ]_vars

\* C6: after set_outputs(n, v) every connection whose source socket is
\* (n, i) with i < len(v) holds v[i], every connection whose source node is
\* not n holds what it held before, and the set of connections, the branch
\* edges, the constants and the nodes are unchanged.
C6_SetOutputsFrame ==
    [][ \A n \in StoreNodeIds : \A v \in OutputSeqs(n) :
          set_outputs_of(n, v) =>
              /\ DOMAIN connections' = DOMAIN connections
              /\ \A c \in DOMAIN connections :
                    /\ (c.output[1] = n /\ c.output[2] < Len(v))
                          => connections'[c] = Some(v[c.output[2] + 1])
                    /\ c.output[1] # n => connections'[c] = connections[c]
              /\ loaded' = loaded ]_vars

\* set_outputs was called for node 0: the two connections that leave its
\* socket 0 hold the same value, and a connection from node 1 still holds an
\* older, different value.
C6_Witness ==
    /\ store_op.name = "set_outputs"
    /\ store_op.node = 0
    /\ \E c, d, e \in DOMAIN connections :
          /\ c # d
          /\ c.output = <<0, 0>>
          /\ d.output = <<0, 0>>
          /\ connections[c] # None
          /\ connections[d] = connections[c]
          /\ e.output[1] = 1
          /\ connections[e] # None
          /\ connections[e] # connections[c]

C8_CallsAndReturnsNest ==
    [][ /\ Len(node_stack') >= Len(node_stack) - 1
        /\ \A i \in 1..(Len(node_stack) - 1) : node_stack'[i] = node_stack[i]
        /\ op' = "execute_subroutine" => Front(node_stack') = node_stack
        /\ op' = "finish_subroutine" => node_stack' = Front(node_stack) ]_vars

\* A plugin's node two frames deep pushed a third frame and popped it again
\* within one execute: the two frames below are the ones it started with.
C8_Witness ==
    /\ op = "finish_subroutine"
    /\ pc = "exec"
    /\ ctx.calls = 2
    /\ ctx.outputs = None
    /\ Len(node_stack) = 2
    /\ node_stack[1] = StartNodeOfMain

\* C9: within a step the node's inputs are those read when the step began,
\* the values it passes to set_outputs reach the stored outputs only after
\* execute has returned, and they are then stored as the outputs of the node
\* that executed the step.
C9_OutputsStoredForExecutingNode ==
    [][ /\ (pc = "exec" /\ op' # "begin") => ctx'.inputs = ctx.inputs
        /\ op' = "set_outputs" => node_outputs' = node_outputs
        /\ (op' = "end_step" /\ pc' = "idle") =>
              node_outputs'[ctx.node] = ctx.outputs ]_vars

\* C10: the loop steps only while the stack is non-empty and the auto flag is
\* set; at the breakpoint it halts before executing that node, the top still
\* the breakpoint, the flag cleared, the stack and the stored values intact;
\* a later resume_auto() continues to completion, so a run that has been
\* resumed never ends in a fault.
C10_LoopHaltsAndResumes ==
    [][ /\ (op' = "begin" /\ auto_execution) => node_stack # <<>>
        /\ op' = "halt" =>
              /\ AtStopPoint'
              /\ ~auto_execution'
              /\ node_stack' = node_stack
              /\ node_outputs' = node_outputs
        /\ resumed' => pc' # "fault" ]_vars

\* C11: a call node inside a subroutine that targets this same subroutine
\* recurses: the step that makes the call completes, and the call has added
\* one frame above the frame of the calling node, which stays where it was
\* with everything below it.
C11_RecursiveCallAddsAFrame ==
    [][ (op = "execute_subroutine" /\ op' = "end_step"
            /\ ctx.node = RecursiveCall) =>
            /\ pc' = "idle"
            /\ Len(node_stack') = Len(node_stack)
            /\ Front(node_stack') = Front(node_stack) ]_vars

\* C12: no executor operation changes the node table, the branch edges, the
\* set of connections, the constants or the module tree of the loaded
\* program.
C12_LoadedProgramIsReadOnly ==
    [][ /\ loaded' = loaded
        /\ DOMAIN connections' = DOMAIN connections ]_vars

\* A run that has called a subroutine, stored outputs and completed steps.
C12_Witness ==
    /\ op = "end_step"
    /\ pc = "idle"
    /\ Len(node_stack) = 3
    /\ node_outputs[SubroutineEntry] # None

\* C13: get_next_node(current, branch) returns a successor if and only if
\* (current, branch) is a key of the branch-edge table, and the successor is
\* the one stored under the key: the step that asks for it pushes that node,
\* and the absence of the key is the None the step trips over.
C13_NextNodeIffEdge ==
    [][ \A branch \in {0, 1} :
          (execute_current_node_end(branch) /\ ctx.outputs # None) =>
              IF <<Last(node_stack), branch>> \in DOMAIN loaded.branch_edges
              THEN /\ pc' = "idle"
                   /\ Last(node_stack') =
                         loaded.branch_edges[<<Last(node_stack), branch>>]
              ELSE /\ pc' = "fault"
                   /\ fault' = "get_next_node: no branch edge" ]_vars

\* The lookup found no edge for branch 1 of node 5.
C13_Witness ==
    /\ op = "end_step"
    /\ fault = "get_next_node: no branch edge"
    /\ ctx.node = 5

\* C14: after any sequence of insert_node, insert_node_at and remove_node,
\* insert_node stores the new node under the smallest id that was unused
\* before the call and returns that same id, so that get_node of the
\* returned id yields the node just inserted.
C14_InsertReturnsTheIdItUsed ==
    [][ storage_op'.name = "insert_node" =>
          LET least == CHOOSE i \in StorageIds :
                          /\ storage.nodes[i] = ""
                          /\ \A j \in 0..(i - 1) : storage.nodes[j] # ""
          IN  /\ storage'.nodes[least] = storage_op'.node
              /\ storage_op'.id = least ]_vars

\* C19: Module::insert makes a module for each missing segment and puts the
\* item at the leaf, so that get_class of the path returns the class that was
\* inserted; it panics exactly when a segment of the path is an item that is
\* not a module.
C19_InsertedClassIsFound ==
    [][ \A path \in InsertPaths, item \in InsertItems :
          module_insert(path, item) =>
            LET blocked == \E k \in 1..(Len(path) - 1) :
                              /\ SubSeq(path, 1, k) \in DOMAIN modules
                              /\ modules[SubSeq(path, 1, k)].kind # "module"
            IN  /\ (load' # "ok") <=> blocked
                /\ (~blocked /\ item.kind = "class") =>
                      GetClass(modules', path) = Some(Class(item.name, item.nodes))
      ]_vars

C16_MethodTableIsTheDeclaredNodes ==
    [][ \A name \in ProgramNames :
          (load_program(name) /\ load' = "ok") =>
            \A k \in 1..Len(ProgramFile(name).classes) :
              LET declared == ProgramFile(name).classes[k]
                  class == GetClass(modules', ClassPath(name, declared.name))
              IN  /\ class # None
                  /\ class[1].nodes =
                        [ i \in 1..Len(declared.nodes) |->
                            programs'[name].nodes[declared.nodes[i]] ]
      ]_vars

\* C17: the collection of a and b, where a has a node of the class that b
\* declares, loads whichever of the two is loaded first.
C17_LoadOrderDoesNotMatter ==
    (pending \cup DOMAIN programs = {"a", "b"}) => load = "ok"

\* C18: load_program of a program that declares a class whose path is taken,
\* by an item of the registry or by an earlier declaration of the same
\* program, ends in a load error.
C18_DuplicateClassIsAnError ==
    [][ \A name \in ProgramNames :
          ( /\ load_program(name)
            /\ LET classes == ProgramFile(name).classes
               IN  \E k \in 1..Len(classes) :
                      \/ ClassPath(name, classes[k].name) \in DOMAIN modules
                      \/ \E j \in 1..(k - 1) : classes[j].name = classes[k].name )
          => load' # "ok"
      ]_vars

\* C20: get_start_node(program, name) returns a node of the loaded program
\* that is a StartNode of the standard start class named name, and returns
\* None only when the program is not loaded or has no such node.
C20_StartNodeIsTheNamedEntry ==
    [][ \A program \in ProgramNames, name \in EntryNames :
          get_start_node(program, name) =>
            LET entries ==
                  IF program \in DOMAIN programs
                  THEN { n \in DOMAIN programs[program].nodes :
                           /\ programs[program].nodes[n].type = "StartNode"
                           /\ programs[program].nodes[n].variant[2] = name }
                  ELSE {}
            IN  /\ (load_op'.result = None) <=> (entries = {})
                /\ (load_op'.result # None) => (load_op'.result[1] \in entries)
      ]_vars

\* C28: when several connections feed one input socket, get_inputs returns
\* for the socket the value of the connection written last: right after a
\* node has written its outputs, the socket holds the output that was written
\* to it last (the load rejects no program, and no constant is on the socket).
C28_LastWriterWins ==
    [][ (store_op.name = "set_outputs" /\ store_op'.name = "get_inputs") =>
          LET written == store_op.result
              result == store_op'.result
          IN  \A c \in DOMAIN connections :
                ( /\ c.output[1] = store_op.node
                  /\ c.output[2] < Len(written)
                  /\ c.input[1] = store_op'.node
                  /\ c.input \notin DOMAIN loaded.const_inputs
                  /\ \E d \in DOMAIN connections : d # c /\ d.input = c.input
                  /\ ~\E d \in DOMAIN connections :
                        /\ d.input = c.input
                        /\ d.output[1] = c.output[1]
                        /\ d.output[2] > c.output[2]
                        /\ d.output[2] < Len(written) )
                => result[c.input[2] + 1] = written[c.output[2] + 1]
      ]_vars

----------------------------------------------------------------------------
(* Claims about the text and the packed forms *)

\* C21: a NodeBranchId packed into a u64 and read back is the id that was
\* packed, node id and branch index alike.
C21_BranchIdRoundTrip ==
    [][ (codec_op.name = "branch_to_u64" /\ codec_op'.name = "branch_from_u64")
            => codec_op'.output = codec_op.input ]_vars

\* C22: a SocketId packed into a u64, node id in the high half and index in
\* the low half, and read back is the id that was packed.
C22_SocketIdRoundTrip ==
    [][ (codec_op.name = "socket_to_u64" /\ codec_op'.name = "socket_from_u64")
            => /\ codec_op'.output = codec_op.input
               /\ Shr(codec_op.output[1], 32) = codec_op.input[1]
               /\ Cast(codec_op.output[1], U32) = codec_op.input[2] ]_vars

C22_Witness ==
    /\ codec_op.name = "socket_from_u64"
    /\ codec_op.output = <<{0, 31}, {1, 31}>>
    /\ codec_op.input = <<{1, 31, 32, 63}>>

\* C23: a module path whose names have no '.', written with to_string and
\* parsed, is the same path: the last piece is the leaf, the pieces before it
\* are the segments in their order.
C23_ModulePathRoundTrip ==
    [][ (codec_op.name = "path_to_string" /\ codec_op'.name = "path_parse_back")
            => /\ codec_op'.error = "none"
               /\ codec_op'.output = codec_op.input ]_vars

C23_Witness ==
    /\ codec_op.name = "path_parse_back"
    /\ codec_op.input = << <<"a", ".", "b", ".", "a">> >>
    /\ codec_op.output = << <<"a">>, <<"b">>, <<"a">> >>

\* C24: parsing the empty text as a module path is an error, and a module
\* path that was parsed has a leaf that is not empty.
C24_EmptyPathIsAnError ==
    [][ \A text \in ParserTexts :
          module_path_parse(text) =>
            /\ (text = <<>>) => (codec_op'.error # "none")
            /\ (codec_op'.error = "none") => (Last(codec_op'.output) # <<>>)
      ]_vars

\* C25: parsing an absolute node id splits the text at its last '@'; what
\* follows must be an integer, what precedes is parsed whole as the program
\* path; a text without '@' or with another right side is a parse error, not
\* a panic.
C25_AbsoluteNodeIdSplitsAtLastAt ==
    [][ \A text \in ParserTexts :
          absolute_node_id_parse(text) =>
            IF \A i \in 1..Len(text) : text[i] # "@"
            THEN codec_op'.error \in {"IdNotFound", "NodeIdParseError", "ProgramIdParseError"}
            ELSE LET at == CHOOSE i \in 1..Len(text) :
                              /\ text[i] = "@"
                              /\ \A j \in (i + 1)..Len(text) : text[j] # "@"
                     node_id == ParseU32(SubSeq(text, at + 1, Len(text)))
                     path == ModulePathFromStr(SubSeq(text, 1, at - 1))
                 IN  IF node_id.ok /\ path.ok
                     THEN /\ codec_op'.error = "none"
                          /\ codec_op'.output = AbsoluteNodeId(path.value, node_id.value)
                     ELSE codec_op'.error \in {"NodeIdParseError", "ProgramIdParseError"}
      ]_vars

\* C26: for every standard node class and every variant text of its
\* grammar, set_variant of the text followed by current_variant gives the
\* same text.
C26_VariantRoundTrip ==
    [][ \A class \in VariantClasses :
          \A text \in VariantTexts(class) :
            set_variant_then_current(class, text) =>
              /\ codec_op'.error = "none"
              /\ codec_op'.output = <<text>>
      ]_vars

----------------------------------------------------------------------------
(* Claims about the standard nodes *)

\* C27: a supplied call enters the entry of the subroutine object on its
\* first input and passes the other inputs on in their order; without a
\* subroutine object there it fails and leaves the call stack as it was.  A
\* fixed call enters the entry of its variant and passes all its inputs.
C27_CallEntersTheSuppliedSubroutine ==
    [][ LET inputs == node_op'.inputs
        IN  node_op'.class = "subroutine" =>
              IF node_op'.variant = "fixed"
              THEN /\ node_op'.error = "none"
                   /\ node_stack' = Append(node_stack, SubroutineEntry)
                   /\ node_op'.passed = inputs
              ELSE IF inputs # <<>> /\ inputs[1].class = "subroutine"
              THEN /\ node_op'.error = "none"
                   /\ node_stack' = Append(node_stack, inputs[1].entry)
                   /\ node_op'.passed = SubSeq(inputs, 2, Len(inputs))
              ELSE /\ node_op'.error # "none"
                   /\ node_stack' = node_stack
      ]_vars

C27_Witness ==
    /\ node_op.class = "subroutine"
    /\ node_op.variant = "supplied"
    /\ node_op.inputs = <<SubroutineObject, BoolTrue, BoolFalse>>
    /\ node_op.passed = <<BoolTrue, BoolFalse>>
    /\ node_stack = <<StartNodeOfMain, SubroutineEntry>>

\* C29: the variables are one flat map: only a variable_set node changes it,
\* and it changes the one name it sets; a variable_get node returns what the
\* map has for the name, whatever calls and returns came in between.
C29_VariablesAreOneFlatScope ==
    [][ LET inputs == node_op'.inputs
        IN  /\ variables' # variables => node_op'.class = "variable_set"
            /\ (node_op'.class = "variable_set" /\ node_op'.error = "none") =>
                  variables' = [variables EXCEPT ![inputs[1].text] = Some(inputs[2])]
            /\ (node_op'.class = "variable_get" /\ inputs # <<>>) =>
                  node_op'.outputs = Some(variables[inputs[1].text])
      ]_vars

C29_Witness ==
    /\ node_op.class = "variable_get"
    /\ node_op.outputs = Some(<<SubroutineObject>>)
    /\ variables["true"] = Some(SubroutineObject)
    /\ Len(node_stack) = 3

\* C30: the branch a standard node returns is below its branches(), which is
\* 1 at least; the if node has 2 branches and returns 1 when its first input
\* is true, a number that is not zero or a string that is not empty, and 0
\* otherwise.
C30_BranchIsBelowBranches ==
    [][ (node_op'.class # "none" /\ node_op'.error = "none") =>
          /\ Branches(node_op'.class) >= 1
          /\ node_op'.branch < Branches(node_op'.class)
          /\ node_op'.class = "if" =>
                /\ Branches("if") = 2
                /\ node_op'.branch =
                        IF node_op'.inputs[1] \in {BoolTrue, NumberOne, StringA}
                        THEN 1 ELSE 0
      ]_vars

C30_Witness ==
    /\ node_op.class = "if"
    /\ node_op.inputs = <<StringA>>
    /\ node_op.branch = 1
    /\ node_op.error = "none"

\* C31: an object of class any cast to a class is the object that the
\* from-text parser of the class makes of the object's text; the cast fails
\* for an object of another class, for a class without a parser, and for a
\* text the parser refuses.
C31_CastIsTheParserOfTheTarget ==
    [][ node_op'.class = "cast" =>
          LET x == node_op'.inputs[1]
              to == node_op'.variant
          IN  IF /\ x.class = "any"
                 /\ to \in {"bool", "number", "string"}
                 /\ ObjFromStr(to)[1][x.text] # None
              THEN /\ node_op'.error = "none"
                   /\ node_op'.outputs = ObjFromStr(to)[1][x.text]
                   /\ node_op'.outputs[1].class = to
              ELSE /\ node_op'.error # "none"
                   /\ node_op'.outputs = None
      ]_vars

C31_Witness ==
    /\ node_op.class = "cast"
    /\ node_op.inputs = <<Obj("any", "1", 0)>>
    /\ node_op.variant = "number"
    /\ node_op.outputs = Some(NumberOne)

\* C32: two objects of different standard classes are not equal and not
\* comparable, and the comparison does not fault; two objects of one class
\* compare as their concrete type does (an array has no order).
C32_ComparisonsFollowTheClass ==
    [][ codec_op'.name \in {"eq", "partial_cmp"} =>
          LET a == codec_op'.input[1]
              b == codec_op'.input[2]
          IN  IF a.class # b.class
              THEN /\ codec_op'.error = "none"
                   /\ codec_op'.output =
                        IF codec_op'.name = "eq" THEN <<"false">> ELSE <<"incomparable">>
              ELSE IF codec_op'.name = "eq"
              THEN /\ codec_op'.error = "none"
                   /\ codec_op'.output = <<IF a = b THEN "true" ELSE "false">>
              ELSE a.class # "array" =>
                   /\ codec_op'.error = "none"
                   /\ codec_op'.output = <<ConcreteCmp(a, b)>>
      ]_vars

\* C33: next_vacant is the smallest id that is no key of the node map: every
\* id below it holds a node and it holds none.
C33_NextVacantIsTheSmallestFreeId ==
    /\ \A i \in StorageIds : i < storage.next_vacant => storage.nodes[i] # ""
    /\ storage.next_vacant \in StorageIds => storage.nodes[storage.next_vacant] = ""

C33_Witness ==
    /\ storage_op.name = "remove_node"
    /\ storage.next_vacant = 1
    /\ storage.nodes[0] # ""
    /\ storage.nodes[2] # ""

----------------------------------------------------------------------------
(* Claims about one step of the executor *)

\* C34: the step in which a node calls execute_subroutine(target, args) and
\* then returns branch b completes with the stack [..., caller, successor of
\* (target, b)]: the frame popped by advance is the target's, the caller's
\* frame stays where it was, and the target is not the top when the step is
\* over.
C34_CallStepEndsOnTheSuccessorOfTheTarget ==
    [][ (op = "execute_subroutine" /\ op' = "end_step") =>
            /\ pc' = "idle"
            /\ Len(node_stack') = Len(node_stack)
            /\ Front(node_stack') = Front(node_stack)
            /\ \E b \in {0, 1} :
                  GetNextNode(SubroutineEntry, b) = Some(Last(node_stack')) ]_vars

\* C35: a step whose node returned without ever calling the context's
\* set_outputs completes without a fault and leaves every stored output
\* value unchanged.
C35_StepWithoutOutputsCompletes ==
    [][ (op' = "end_step" /\ ctx.outputs = None) =>
            /\ pc' # "fault"
            /\ node_outputs' = node_outputs ]_vars

\* C36: a step never waits for the executor lock it holds itself: the guard
\* taken to read the current node and its inputs is gone when execute runs,
\* so the lock is free whenever the node is executing and whenever the
\* executor is between steps, and it is left unusable only by a fault.
C36_LockIsFreeWhileTheNodeExecutes ==
    /\ lock # "held"
    /\ pc \in {"idle", "exec"} => lock = "free"
    /\ lock = "poisoned" => pc = "fault"

\* A node has taken the lock during its execute, for execute_subroutine, and
\* the step has taken it again afterwards and completed.
C36_Witness ==
    /\ op = "end_step"
    /\ pc = "idle"
    /\ ctx.calls >= 2
    /\ Len(node_stack) >= 2
    /\ lock = "free"

----------------------------------------------------------------------------
(* Claims about the order of a load *)

\* C37: load_program registers the declared classes, then instantiates the
\* nodes, then fills the method tables, so a program that has a node of a
\* class it declares itself loads: when every class named by a node of the
\* program is in the registry once the declarations are registered,
\* load_program succeeds and the program is loaded.
C37_ProgramWithANodeOfItsOwnClassLoads ==
    [][ \A name \in ProgramNames :
          ( /\ load_program(name)
            /\ LET file == ProgramFile(name)
                   declared == DeclareClasses(modules, name, file.classes, 1)
               IN  /\ ~declared.panicked
                   /\ \E id \in DOMAIN file.nodes, k \in 1..Len(file.classes) :
                         file.nodes[id].class = ClassPath(name, file.classes[k].name)
                   /\ \A id \in DOMAIN file.nodes :
                         GetClass(declared.modules, file.nodes[id].class) # None )
          => /\ load' = "ok"
             /\ name \in DOMAIN programs'
      ]_vars

----------------------------------------------------------------------------
(* Claims about constants, empty results and unwritten outputs of the store *)

\* C38: when get_inputs(n) returns and an input socket (n, i) that n declares
\* has a constant input and also a connection that holds a value, position i
\* of the result is the parsed constant, whatever the connection holds and
\* whenever it was written.
C38_ConstantWinsOverAConnection ==
    store_op.name = "get_inputs" =>
        LET n == store_op.node
            r == store_op.result
        IN  \A sk \in DOMAIN loaded.const_inputs :
              ( /\ sk[1] = n
                /\ sk[2] < Len(NodeInputs(loaded.nodes[n]))
                /\ \E c \in DOMAIN connections :
                      c.input = sk /\ connections[c] # None )
              => /\ Len(r) > sk[2]
                 /\ r[sk[2] + 1] = ParseNumber(loaded.const_inputs[sk])

\* get_inputs of the consumer returned the constant 2 of its socket 0 while a
\* connection into that socket holds 1.
C38_Witness ==
    /\ store_op.name = "get_inputs"
    /\ store_op.node = 2
    /\ <<2, 0>> \in DOMAIN loaded.const_inputs
    /\ store_op.result[1] = Some(2)
    /\ \E c \in DOMAIN connections : c.input = <<2, 0>> /\ connections[c] = Some(1)

\* C39: get_inputs(n) never returns an empty sequence; when no connection
\* into n holds a value and no constant is bound to n, the result is one
\* absent slot, whether or not an unfilled connection mentions index 0.
C39_InputsAreNeverEmpty ==
    store_op.name = "get_inputs" =>
        LET n == store_op.node
            r == store_op.result
        IN  /\ Len(r) >= 1
            /\ ( /\ \A c \in DOMAIN connections :
                       c.input[1] = n => connections[c] = None
                 /\ \A sk \in DOMAIN loaded.const_inputs : sk[1] # n )
               => r = <<None>>

\* get_inputs of the consumer returned one absent slot while a connection
\* into its socket 0 exists and was never written.
C39_Witness ==
    /\ store_op.name = "get_inputs"
    /\ store_op.node = 2
    /\ store_op.result = <<None>>
    /\ loaded.const_inputs = <<>>
    /\ \E c \in DOMAIN connections : c.input = <<2, 0>> /\ connections[c] = None

============================================================================
